---- MODULE Spec2Model ----
(***************************************************************************)
(* Session layer of the driver (sessionWithContext, src/unnamed/part_000   *)
(* lines 1051-1557) together with the collaborators it drives: the         *)
(* connection pool, the router, the connection as seen through             *)
(* idb.Connection, the transaction wrappers and the retry state.           *)
(* The collaborators whose code is not part of the sources are modelled    *)
(* from their documented contract.                                         *)
(***************************************************************************)
EXTENDS Integers, Sequences, FiniteSets, TLC

\* ------------------------------------------------------------------ bounds
NumConns == 2
MaxTransactionRetryTime == 0
MaxConnectionPoolSize == 1
\* the largest number of records a query returns
MaxRecords == 3
\* the ids a backend hands out
MaxId == 4

Conns == 1..NumConns
\* the goroutines that call into the session
Threads == {1, 2}
NULL == 0

\* ------------------------------------------------------------------ values
ReadMode == "Read"
WriteMode == "Write"
AccessModes == {ReadMode, WriteMode}

DefaultDatabase == ""
HomeDatabase == "home"
ConfigDatabases == {DefaultDatabase, "db"}

\* bookmarks a server can put in a terminal SUCCESS; "" stands for a reply
\* without the bookmark key
ServerBookmarks == {"", "b1", "b2"}
\* SessionConfig.Bookmarks as given by the caller (may hold empty strings)
ConfigBookmarks == {<< >>, <<"", "i1", "i2">>}

\* TransactionConfig.Timeout: MinInt is the "not set" sentinel
MinInt == -2147483647 - 1
Timeouts == {MinInt, -1, 0, 1}

\* connection states (bolt5 state constants)
Ready == "Ready"
Streaming == "Streaming"
Tx == "Tx"
StreamingTx == "StreamingTx"
Failed == "Failed"
Dead == "Dead"
ConnStates == {Ready, Streaming, Tx, StreamingTx, Failed, Dead}

\* results of the session operations
Ok == "Ok"
UsageError == "UsageError"
ConnectivityError == "ConnectivityError"
DatabaseError == "DatabaseError"
TransientError == "TransientError"
UserError == "UserError"
TransactionExecutionLimit == "TransactionExecutionLimit"
NoResult == << >>

VARIABLES
    \* sessionWithContext fields
    defaultMode, bookmarks, databaseName, resolveHomeDb, explicitTx, autocommitTx,
    \* config.ConnectionAcquisitionTimeout of the driver the session belongs to
    acquisitionTimeout,
    \* pool and connections: state, bookmark and number of attached streams
    borrowed, connState, connBookmark, attached,
    \* callers of the session: position, connection held, last returned value
    pc, callConn, lastOp, ret,
    \* retry.State of the managed transaction a caller is in, and its counters
    rs, work,
    \* observation of the session's traffic
    configBookmarks, lastEmitted, sent, badReturn, txHandles,
    \* what the last step did: the COMMIT it sent, the connections it handed
    \* to pool.Return, the router invalidations, the timeout it was called with
    obs,
    \* the call of Close in progress or just returned: its txErr, its two
    \* channels, the goroutines still to run and those that have finished
    closing,
    \* the stream handle a caller of connection 1 holds: what the server has
    \* still to send, what the connection has buffered and handed out
    stream,
    \* the testkit backend that drives a session for a frontend: its id
    \* counter, the retryable state of its session, the objects it tracks,
    \* and the responses it has written for the request in progress
    backend

vars == << defaultMode, bookmarks, databaseName, resolveHomeDb, explicitTx, autocommitTx,
           acquisitionTimeout,
           borrowed, connState, connBookmark, attached,
           pc, callConn, lastOp, ret, rs, work,
           configBookmarks, lastEmitted, sent, badReturn, txHandles, obs, closing,
           stream, backend >>

\* ----------------------------------------------------------- pure helpers

RECURSIVE cleanupBookmarks(_)
cleanupBookmarks(bms) ==
    IF bms = << >> THEN << >>
    ELSE IF Head(bms) = "" THEN cleanupBookmarks(Tail(bms))
         ELSE << Head(bms) >> \o cleanupBookmarks(Tail(bms))

defaultTransactionConfig == [Timeout |-> MinInt]

\* a validation that forgets the "not set" sentinel
validateTransactionConfigNoSentinel(config) ==
    IF config.Timeout < 0 THEN UsageError ELSE Ok

validateTransactionConfig(config) ==
    IF config.Timeout # MinInt /\ config.Timeout < 0 THEN UsageError ELSE Ok

\* nothing observed yet in this step; router: the calls of the router as
\* << method, database, result >>, borrow: the deadline and the wait flag of
\* each pool.Borrow, mode: the TxConfig.Mode handed to the connection, handle:
\* whether the stream handle given to Buffer or Consume is one of the connection's
NoObs == [commit |-> "none", work |-> "none", returned |-> {}, invalidated |-> << >>,
          timeout |-> MinInt, msgs |-> << >>, bookmark |-> "", replies |-> << >>,
          router |-> << >>, borrow |-> << >>, mode |-> << >>, handle |-> "none"]

\* no stream handle: fetch is the stream's fetch size, total the number of
\* records of the result, server the records the server has not been asked
\* for yet, batch the records of the requested batch still to arrive, fifo
\* the records buffered in the stream, delivered those handed to the caller,
\* end how the stream ended, pulls the sizes of the PULLs dispatched for it
NoStreamRec == [open |-> FALSE, tx |-> FALSE, fetch |-> -1, total |-> 0, server |-> 0,
                batch |-> 0, fifo |-> << >>, delivered |-> << >>, end |-> "none",
                err |-> Ok, bm |-> "", pulls |-> << >>, discards |-> 0]

\* no call of Close in progress
NoClosing == [txErr |-> Ok, poolErrChan |-> << >>, routerErrChan |-> << >>,
              todo |-> {}, finished |-> << >>, poolErr |-> "none", routerErr |-> "none"]

\* ------------------------------------------------- the state as one record
\* Handlers are written as functions from a state record to a state record,
\* the way the Go methods mutate the session; an action installs the result.
\* The fields err and conn are the handler's returned values.
St == [ defaultMode |-> defaultMode, bookmarks |-> bookmarks,
        databaseName |-> databaseName, resolveHomeDb |-> resolveHomeDb,
        explicitTx |-> explicitTx, autocommitTx |-> autocommitTx,
        acquisitionTimeout |-> acquisitionTimeout,
        borrowed |-> borrowed, connState |-> connState, connBookmark |-> connBookmark,
        attached |-> attached,
        lastEmitted |-> lastEmitted, sent |-> << >>, badReturn |-> badReturn,
        txHandles |-> txHandles, obs |-> NoObs, closing |-> NoClosing,
        stream |-> stream, backend |-> backend,
        err |-> Ok, conn |-> NULL, val |-> NoResult ]

Install(w) ==
    /\ defaultMode' = w.defaultMode
    /\ bookmarks' = w.bookmarks
    /\ databaseName' = w.databaseName
    /\ resolveHomeDb' = w.resolveHomeDb
    /\ explicitTx' = w.explicitTx
    /\ autocommitTx' = w.autocommitTx
    /\ acquisitionTimeout' = w.acquisitionTimeout
    /\ borrowed' = w.borrowed
    /\ connState' = w.connState
    /\ connBookmark' = w.connBookmark
    /\ attached' = w.attached
    /\ lastEmitted' = w.lastEmitted
    /\ sent' = w.sent
    /\ badReturn' = w.badReturn
    /\ txHandles' = w.txHandles
    /\ obs' = w.obs
    /\ closing' = w.closing
    /\ stream' = w.stream
    /\ backend' = w.backend

\* ------------------------------------------------------------------- pool
\* pool.Return: the pool takes the connection back and prepares it for the
\* next borrower (a Failed connection is reset, a Dead one is closed and its
\* slot refilled); a Return of something that is not borrowed is recorded.
poolReturn(w, c) ==
    [w EXCEPT !.borrowed = @ \ {c},
              !.connState[c] = Ready,
              !.connBookmark[c] = "",
              !.attached[c] = 0,
              !.badReturn = @ \/ (c \notin w.borrowed),
              !.obs.returned = @ \cup (IF c \in Conns THEN {w.connState[c]} ELSE {})]

\* pool.Borrow: c = NULL is a failed borrow (timeout, pool full, no server);
\* otherwise the pool hands out its first idle connection
IdleConns(w) ==
    LET idle == Conns \ w.borrowed IN
    IF idle = {} THEN {} ELSE {CHOOSE c \in idle : \A d \in idle : c <= d}

BorrowChoices(w) == IdleConns(w) \cup {NULL}

poolBorrow(w, c) ==
    IF c = NULL THEN [w EXCEPT !.err = ConnectivityError, !.conn = NULL]
    ELSE [w EXCEPT !.borrowed = @ \cup {c}, !.err = Ok, !.conn = c]

\* ------------------------------------------------------------- connection
\* What the server (or the socket) answers to one request
Replies == {"success", "failure", "dead"}
\* the same, with the two FAILURE codes the connection looks at: "failure"
\* is a FAILURE with any other code
ConnReplies == Replies \cup {"authorizationExpired", "tokenExpired"}
ConnStreamInputs ==
    {[reply |-> "success", bm |-> b] : b \in ServerBookmarks}
    \cup {[reply |-> r, bm |-> ""] : r \in ConnReplies \ {"success"}}
ErrOf(reply) == IF reply = "dead" THEN ConnectivityError ELSE DatabaseError

\* a connection that survives every FAILURE
StateOfAnyFailure(reply) == IF reply = "dead" THEN Dead ELSE Failed

\* a socket error and an expired authorization end the connection, any
\* other FAILURE leaves it Failed
StateOf(reply) == IF reply \in {"dead", "authorizationExpired"} THEN Dead ELSE Failed

\* conn.Bookmark()
Bookmark(w, c) == w.connBookmark[c]

\* a connection that forgets its failure and reports a state error
ErrOfStateInvalid(st) == UsageError

\* b.err, the failure that put the connection in the state it is in: a
\* connection that has failed or died answers every request with it
ErrOfState(st) == IF st = Dead THEN ConnectivityError ELSE DatabaseError

\* the messages a request writes to the connection
send(w, msgs) == [w EXCEPT !.obs.msgs = @ \o msgs]

\* a FAILURE or a socket error: the attached stream, if any, gets the error
\* and is detached
connFail(w, c, reply) ==
    [w EXCEPT !.connState[c] = StateOf(reply), !.attached[c] = 0, !.err = ErrOf(reply),
              !.obs.replies = Append(@, reply)]

\* a refusal that reports a state error whatever happened before
refuseAsUsageError(w, c) == [w EXCEPT !.err = UsageError]

\* a request made in a state that does not allow it: the earlier failure if
\* there was one, else a state error; nothing is sent
refuse(w, c) ==
    [w EXCEPT !.err = IF w.connState[c] \in {Failed, Dead}
                      THEN ErrOfState(w.connState[c]) ELSE UsageError]

\* conn.TxBegin(ctx, TxConfig{Bookmarks: bms, ...})
ConnTxBegin(w, c, bms, reply) ==
    IF w.connState[c] # Ready THEN refuse(w, c)
    ELSE LET w1 == send([w EXCEPT !.sent = << bms >>], << "BEGIN" >>) IN
         IF reply = "success"
         THEN [w1 EXCEPT !.connState[c] = Tx, !.err = Ok]
         ELSE connFail(w1, c, reply)

\* conn.Run(ctx, Command, TxConfig{Bookmarks: bms, ...}): valid in Ready and
\* in Tx; RUN + PULL pipelined; the new stream becomes the attached stream
ConnRun(w, c, bms, reply) ==
    IF w.connState[c] \notin {Ready, Tx} THEN refuse(w, c)
    ELSE LET w1 == send([w EXCEPT !.sent = << bms >>], << "RUN", "PULL" >>) IN
         IF reply = "success"
         THEN [w1 EXCEPT !.connState[c] = IF @ = Ready THEN Streaming ELSE StreamingTx,
                         !.attached[c] = @ + 1, !.err = Ok]
         ELSE connFail(w1, c, reply)

\* a RunTx that does not look for a stream that is still attached
ConnRunTxWhileStreaming(w, c, reply) ==
    IF w.connState[c] \notin {Tx, StreamingTx} THEN refuse(w, c)
    ELSE LET w1 == send(w, << "RUN", "PULL" >>) IN
         IF reply = "success"
         THEN [w1 EXCEPT !.connState[c] = StreamingTx, !.attached[c] = @ + 1, !.err = Ok]
         ELSE connFail(w1, c, reply)

\* conn.RunTx(ctx, tx, Command): as Run, inside the transaction
ConnRunTx(w, c, reply) ==
    IF w.connState[c] # Tx THEN refuse(w, c)
    ELSE LET w1 == send(w, << "RUN", "PULL" >>) IN
         IF reply = "success"
         THEN [w1 EXCEPT !.connState[c] = StreamingTx, !.attached[c] = @ + 1, !.err = Ok]
         ELSE connFail(w1, c, reply)

\* a summary that overwrites the connection's bookmark even when it carries none
FinishStreamOverwritesBookmark(w, c, reply, bm) ==
    IF w.connState[c] # Streaming THEN w
    ELSE IF reply = "success"
         THEN [w EXCEPT !.connState[c] = Ready,
                        !.attached[c] = 0,
                        !.connBookmark[c] = bm,
                        !.lastEmitted = IF bm # "" THEN bm ELSE @,
                        !.obs.bookmark = bm,
                        !.err = Ok]
         ELSE connFail(w, c, reply)

\* The attached auto-commit stream is read to its end (Next until the
\* summary, Buffer or Consume): the final summary carries the bookmark.
FinishStream(w, c, reply, bm) ==
    IF w.connState[c] # Streaming THEN w
    ELSE IF reply = "success"
         THEN [w EXCEPT !.connState[c] = Ready,
                        !.attached[c] = 0,
                        !.connBookmark[c] = IF bm # "" THEN bm ELSE @,
                        !.lastEmitted = IF bm # "" THEN bm ELSE @,
                        !.obs.bookmark = bm,
                        !.err = Ok]
         ELSE connFail(w, c, reply)

\* a summary inside a transaction that ends the transaction's state
FinishStreamTxToReady(w, c, reply) ==
    IF w.connState[c] # StreamingTx THEN w
    ELSE IF reply = "success"
         THEN [w EXCEPT !.connState[c] = Ready, !.attached[c] = 0, !.err = Ok]
         ELSE connFail(w, c, reply)

\* The attached stream of a transaction is read to its end: the summary
\* detaches it and the connection is back in the transaction
FinishStreamTx(w, c, reply) ==
    IF w.connState[c] # StreamingTx THEN w
    ELSE IF reply = "success"
         THEN [w EXCEPT !.connState[c] = Tx, !.attached[c] = 0, !.err = Ok]
         ELSE connFail(w, c, reply)

\* a stream still attached when the transaction ends is discarded first:
\* DISCARD is sent and its summary absorbed
discardAllStreams(w, c) ==
    IF w.connState[c] = StreamingTx
    THEN send([w EXCEPT !.connState[c] = Tx, !.attached[c] = 0], << "DISCARD" >>)
    ELSE w

\* conn.TxCommit(ctx, tx)
ConnTxCommit(w, c, reply, bm) ==
    IF w.connState[c] \notin {Tx, StreamingTx} THEN refuse(w, c)
    ELSE LET w1 == send(discardAllStreams(w, c), << "COMMIT" >>) IN
         IF reply = "success"
         THEN [w1 EXCEPT !.connState[c] = Ready,
                         !.connBookmark[c] = IF bm # "" THEN bm ELSE @,
                         !.lastEmitted = IF bm # "" THEN bm ELSE @,
                         !.obs.commit = "ok",
                         !.obs.bookmark = bm,
                         !.err = Ok]
         ELSE [connFail(w1, c, reply) EXCEPT !.obs.commit = "failed"]

\* conn.TxRollback(ctx, tx)
ConnTxRollback(w, c, reply) ==
    IF w.connState[c] \notin {Tx, StreamingTx} THEN refuse(w, c)
    ELSE LET w1 == send(discardAllStreams(w, c), << "ROLLBACK" >>) IN
         IF reply = "success"
         THEN [w1 EXCEPT !.connState[c] = Ready, !.err = Ok]
         ELSE connFail(w1, c, reply)

\* what Reset may find on the socket after its RESET: the replies the server
\* still owed to requests it now ignores, then the SUCCESS of the RESET; a
\* sequence without SUCCESS is a socket that fails while Reset reads
ResetReplies == { << "SUCCESS" >>, << "IGNORED", "SUCCESS" >>,
                  << "IGNORED", "IGNORED", "SUCCESS" >>, << >>, << "IGNORED" >> }

\* a Reset that takes the first reply for the answer to its RESET
resetReadsFirstReply(replies) ==
    IF replies # << >> /\ Head(replies) = "SUCCESS" THEN "success" ELSE "dead"

\* Reset reads replies until the SUCCESS of its RESET, skipping IGNORED
RECURSIVE resetDrain(_)
resetDrain(replies) ==
    IF replies = << >> THEN "dead"
    ELSE IF Head(replies) = "SUCCESS" THEN "success"
    ELSE IF Head(replies) = "IGNORED" THEN resetDrain(Tail(replies))
    ELSE "dead"

\* a Reset that tries its RESET on a dead connection too
ConnResetOnDead(w, c, replies) ==
    IF w.connState[c] = Ready THEN [w EXCEPT !.err = Ok]
    ELSE LET w1 == [send(w, << "RESET" >>) EXCEPT !.obs.replies = replies] IN
         IF resetDrain(replies) = "success"
         THEN [w1 EXCEPT !.connState[c] = Ready, !.attached[c] = 0, !.err = Ok]
         ELSE [w1 EXCEPT !.connState[c] = Dead, !.attached[c] = 0,
                         !.err = ConnectivityError]

\* conn.Reset(ctx): nothing to do on a Ready connection and nothing possible
\* on a Dead one; otherwise RESET is sent and its SUCCESS awaited
ConnReset(w, c, replies) ==
    IF w.connState[c] \in {Ready, Dead} THEN [w EXCEPT !.err = Ok]
    ELSE LET w1 == [send(w, << "RESET" >>) EXCEPT !.obs.replies = replies] IN
         IF resetDrain(replies) = "success"
         THEN [w1 EXCEPT !.connState[c] = Ready, !.attached[c] = 0, !.err = Ok]
         ELSE [w1 EXCEPT !.connState[c] = Dead, !.attached[c] = 0,
                         !.err = ConnectivityError]

\* ---------------------------------------------------------------- session
\* retrieveBookmarks that adds the bookmark to the set instead of replacing it
retrieveBookmarksAppend(w, c) ==
    IF c = NULL THEN w
    ELSE IF Len(Bookmark(w, c)) > 0
         THEN [w EXCEPT !.bookmarks = Append(@, Bookmark(w, c))]
         ELSE w

\* retrieveBookmarks without the check for an empty bookmark
retrieveBookmarksUnchecked(w, c) ==
    IF c = NULL THEN w
    ELSE [w EXCEPT !.bookmarks = << Bookmark(w, c) >>]

\* retrieveBookmarks that also hands the connection back to the pool
retrieveBookmarksAndReturn(w, c) ==
    IF c = NULL THEN w
    ELSE IF Len(Bookmark(w, c)) > 0
         THEN poolReturn([w EXCEPT !.bookmarks = << Bookmark(w, c) >>], c)
         ELSE poolReturn(w, c)

\* s.retrieveBookmarks(conn)
retrieveBookmarks(w, c) ==
    IF c = NULL THEN w
    ELSE IF Len(Bookmark(w, c)) > 0
         THEN [w EXCEPT !.bookmarks = << Bookmark(w, c) >>]
         ELSE w

\* a resolution that caches the name but never marks the session resolved
resolveHomeDatabaseNeverMarks(w, ok, defaultDb) ==
    IF ~w.resolveHomeDb THEN [w EXCEPT !.err = Ok]
    ELSE LET w1 == [w EXCEPT !.obs.router = Append(@,
                        << "GetNameOfDefaultDatabase", "", IF ok THEN defaultDb ELSE "error" >>)]
         IN IF ~ok THEN [w1 EXCEPT !.err = ConnectivityError]
            ELSE [w1 EXCEPT !.databaseName = defaultDb, !.err = Ok]

\* a resolution that marks the session resolved before it asks the router
resolveHomeDatabaseMarksFirst(w, ok, defaultDb) ==
    IF ~w.resolveHomeDb THEN [w EXCEPT !.err = Ok]
    ELSE LET w1 == [w EXCEPT !.resolveHomeDb = FALSE, !.obs.router = Append(@,
                        << "GetNameOfDefaultDatabase", "", IF ok THEN defaultDb ELSE "error" >>)]
         IN IF ~ok THEN [w1 EXCEPT !.err = ConnectivityError]
            ELSE [w1 EXCEPT !.databaseName = defaultDb, !.err = Ok]

\* s.resolveHomeDatabase(ctx); ok, defaultDb: what router.GetNameOfDefaultDatabase returns
resolveHomeDatabase(w, ok, defaultDb) ==
    IF ~w.resolveHomeDb THEN [w EXCEPT !.err = Ok]
    ELSE LET w1 == [w EXCEPT !.obs.router = Append(@,
                        << "GetNameOfDefaultDatabase", "", IF ok THEN defaultDb ELSE "error" >>)]
         IN IF ~ok THEN [w1 EXCEPT !.err = ConnectivityError]
            ELSE [w1 EXCEPT !.databaseName = defaultDb, !.resolveHomeDb = FALSE, !.err = Ok]

\* a lookup that goes by the session's configured access mode
getServersOfSession(w, mode, ok) ==
    LET method == IF w.defaultMode = ReadMode THEN "Readers" ELSE "Writers" IN
    [w EXCEPT !.obs.router = Append(@, << method, w.databaseName, IF ok THEN "ok" ELSE "error" >>),
              !.err = IF ok THEN Ok ELSE ConnectivityError]

\* s.getServers(ctx, mode); ok: whether the router has servers to return
getServers(w, mode, ok) ==
    LET method == IF mode = ReadMode THEN "Readers" ELSE "Writers" IN
    [w EXCEPT !.obs.router = Append(@, << method, w.databaseName, IF ok THEN "ok" ELSE "error" >>),
              !.err = IF ok THEN Ok ELSE ConnectivityError]

\* "if s.config.ConnectionAcquisitionTimeout > 0": context.WithTimeout
acquisitionDeadline(w) == w.acquisitionTimeout > 0

\* a wait flag computed as "ConnectionAcquisitionTimeout >= 0"
acquisitionWaitNonNegative(w) == w.acquisitionTimeout >= 0

\* the wait flag of pool.Borrow: s.config.ConnectionAcquisitionTimeout != 0
acquisitionWait(w) == w.acquisitionTimeout # 0

\* s.pool.Borrow(ctx, servers, wait, ...) under a context with or without deadline
Borrow(w, c, deadline, wait) ==
    [poolBorrow(w, c) EXCEPT !.obs.borrow = Append(@, [deadline |-> deadline, wait |-> wait])]

\* inputs of one connection acquisition: the router's answers (home database
\* name, servers), the pool's answer and whether the connection implements
\* idb.DatabaseSelector; inputs that the code does not look at are fixed
HomeNames == {DefaultDatabase, HomeDatabase}

AcqIn(resolveOk, home, serversOk, conn, selector) ==
    [resolveOk |-> resolveOk, home |-> home, serversOk |-> serversOk,
     conn |-> conn, selector |-> selector]

AcquireInputs(w) ==
    LET homes == IF w.resolveHomeDb THEN HomeNames ELSE {HomeDatabase} IN
      (IF w.resolveHomeDb THEN {AcqIn(FALSE, HomeDatabase, TRUE, NULL, TRUE)} ELSE {})
    \cup {AcqIn(TRUE, h, FALSE, NULL, TRUE) : h \in homes}
    \cup {AcqIn(TRUE, h, TRUE, c, TRUE) : h \in homes, c \in BorrowChoices(w)}
    \cup {AcqIn(TRUE, h, TRUE, c, FALSE) : h \in homes, c \in IdleConns(w)}

\* idb.TxConfig{Mode: mode, ...}: the access mode handed to conn.TxBegin and
\* conn.Run with the request
txConfig(w, mode) == [w EXCEPT !.obs.mode = << mode >>]

\* s.getConnection(ctx, mode, livenessCheckThreshold)
getConnection(w, mode, g) ==
    LET w1 == resolveHomeDatabase(w, g.resolveOk, g.home) IN
    IF w1.err # Ok THEN [w1 EXCEPT !.conn = NULL]
    ELSE LET ws == getServers(w1, mode, g.serversOk) IN
    IF ws.err # Ok THEN [ws EXCEPT !.conn = NULL]
    ELSE LET w2 == Borrow(ws, g.conn, acquisitionDeadline(ws), acquisitionWait(ws)) IN
         IF w2.err # Ok THEN w2
         ELSE IF w2.databaseName # DefaultDatabase /\ ~g.selector
              THEN [poolReturn(w2, w2.conn) EXCEPT !.err = UsageError, !.conn = NULL]
              ELSE w2

\* onClosed that forgets to hand the connection back to the pool
explicitOnClosedNoReturn(w, c) ==
    [retrieveBookmarks(w, c) EXCEPT !.explicitTx = NULL]

\* onClosed of the explicit transaction created by BeginTransaction
explicitOnClosed(w, c) ==
    LET w1 == poolReturn(retrieveBookmarks(w, c), c) IN
    [w1 EXCEPT !.explicitTx = NULL]

\* onClosed that forgets to pick up the bookmark of the connection
autocommitOnClosedNoBookmark(w, c) ==
    [poolReturn(w, c) EXCEPT !.autocommitTx = NULL]

\* onClosed that leaves the session's reference to the transaction in place
autocommitOnClosedKeepsReference(w, c) ==
    poolReturn(retrieveBookmarks(w, c), c)

\* onClosed of the auto-commit transaction created by Run
autocommitOnClosed(w, c) ==
    LET w1 == poolReturn(retrieveBookmarks(w, c), c) IN
    [w1 EXCEPT !.autocommitTx = NULL]

\* what the rest of a stream brings when it is read to its end
StreamInputs ==
    {[reply |-> "success", bm |-> b] : b \in ServerBookmarks}
    \cup {[reply |-> "failure", bm |-> ""], [reply |-> "dead", bm |-> ""]}
NoStream == {[reply |-> "success", bm |-> ""]}

\* the inputs that matter when connection c is asked to end its stream or
\* its transaction
EndInputs(w, c, states) ==
    IF c # NULL /\ w.connState[c] \in states THEN StreamInputs ELSE NoStream
ReplyInputs(w, c, states) ==
    IF c # NULL /\ w.connState[c] \in states
    THEN {[reply |-> r, bm |-> ""] : r \in Replies} ELSE NoStream

\* autocommitTransaction.done(ctx): buffer the result, then onClosed
done(w, o) ==
    LET c == w.autocommitTx IN
    autocommitOnClosed(FinishStream(w, c, o.reply, o.bm), c)

\* autocommitTransaction.discard(ctx): consume the result, then onClosed
discard(w, o) ==
    LET c == w.autocommitTx IN
    autocommitOnClosed(FinishStream(w, c, o.reply, o.bm), c)

\* explicitTransaction.Commit(ctx)
explicitCommit(w, c, o) ==
    LET w1 == ConnTxCommit(w, c, o.reply, o.bm)
        w2 == explicitOnClosed(w1, c)
    IN [w2 EXCEPT !.txHandles = @ \ {c}, !.err = w1.err]

\* explicitTransaction.Rollback(ctx): a connection that already failed or
\* died has rolled the transaction back by itself
explicitRollback(w, c, o) ==
    LET w1 == IF w.connState[c] \in {Failed, Dead} THEN [w EXCEPT !.err = Ok]
              ELSE ConnTxRollback(w, c, o.reply)
        w2 == explicitOnClosed(w1, c)
    IN [w2 EXCEPT !.txHandles = @ \ {c}, !.err = w1.err]

\* explicitTransaction.Close(ctx)
explicitClose(w, c, o) == explicitRollback(w, c, o)

\* ----------------------------------------------------------- retry.State
\* a retry.State built without the limit of dead connections
NewStateNoDeadLimit ==
    [ LastErr |-> Ok, LastErrWasRetryable |-> FALSE, stop |-> FALSE,
      elapsed |-> 0, cause |-> "", deadErrors |-> 0, skipSleep |-> FALSE,
      Errs |-> << >>, Causes |-> << >>,
      MaxTransactionRetryTime |-> MaxTransactionRetryTime,
      MaxDeadConnections |-> 0 ]

\* runRetriable's retry.State{...}: the fields the session sets and reads
NewState ==
    [ LastErr |-> Ok, LastErrWasRetryable |-> FALSE, stop |-> FALSE,
      elapsed |-> 0, cause |-> "", deadErrors |-> 0, skipSleep |-> FALSE,
      Errs |-> << >>, Causes |-> << >>,
      MaxTransactionRetryTime |-> MaxTransactionRetryTime,
      MaxDeadConnections |-> MaxConnectionPoolSize ]

\* a clock that stands still while the loop sleeps
AdvanceFrozen(r, d) == r

\* s.sleep and s.now (time.Sleep, time.Now): a sleep of d moves the clock by d.
\* Time is measured from the start of the retry loop; everything beyond the
\* deadline is the same to the loop
Advance(r, d) ==
    [r EXCEPT !.elapsed = IF @ + d > r.MaxTransactionRetryTime
                          THEN r.MaxTransactionRetryTime + 1 ELSE @ + d]

\* the failure classes that permit a retry
RetryableClass(connSt, err, isCommitting) ==
    \/ connSt = "nil" /\ err = ConnectivityError
    \/ connSt = Dead /\ ~isCommitting
    \/ connSt \notin {"nil", Dead} /\ err = TransientError

\* state.OnFailure(ctx, conn, err, isCommitting); connSt is "nil" when conn is
OnFailure(r, connSt, err, isCommitting) ==
    LET r0 == [r EXCEPT !.LastErr = err, !.cause = "", !.skipSleep = FALSE,
                        !.LastErrWasRetryable = FALSE] IN
    IF connSt = "nil"
    THEN IF err = ConnectivityError
         THEN [r0 EXCEPT !.LastErrWasRetryable = TRUE, !.cause = "No available connection"]
         ELSE [r0 EXCEPT !.stop = TRUE]
    ELSE IF connSt = Dead
    THEN IF isCommitting
         THEN [r0 EXCEPT !.stop = TRUE]
         ELSE [r0 EXCEPT !.deadErrors = @ + 1,
                         !.stop = (r0.deadErrors + 1 > r0.MaxDeadConnections),
                         !.LastErrWasRetryable = TRUE,
                         !.cause = "Connection lost",
                         !.skipSleep = TRUE]
    ELSE IF err = TransientError
    THEN [r0 EXCEPT !.LastErrWasRetryable = TRUE, !.cause = "Transient error"]
    ELSE [r0 EXCEPT !.stop = TRUE]

\* state.Continue(): the result record carries the answer in go; d is the
\* time the sleeper lets pass
Continue(r, d) ==
    IF ~r.stop /\ r.LastErr = Ok
    THEN [go |-> TRUE, r |-> r]
    ELSE LET r1 == [r EXCEPT !.Errs = Append(@, r.LastErr),
                             !.Causes = IF r.cause # "" THEN Append(@, r.cause) ELSE @] IN
         IF r1.stop THEN [go |-> FALSE, r |-> r1]
         ELSE IF r1.elapsed > r1.MaxTransactionRetryTime
         THEN [go |-> FALSE, r |-> [r1 EXCEPT !.stop = TRUE, !.cause = "Timeout"]]
         ELSE IF r1.skipSleep THEN [go |-> TRUE, r |-> r1]
         ELSE [go |-> TRUE, r |-> Advance(r1, d)]

SleepDelays == {1}

\* --------------------------------------------------------------- callers
\* a call returns error e and value v; v is << >> for no value, << n >> for
\* a connection or the value of work, << "bookmarks", bms >> for bookmarks and
\* << "errors", errs, causes >> for the body of an execution-limit error
Return(t, op, e, v) ==
    /\ pc' = [pc EXCEPT ![t] = "idle"]
    /\ ret' = [ret EXCEPT ![t] = [err |-> e, val |-> v]]
    /\ lastOp' = [lastOp EXCEPT ![t] = op]
    /\ callConn' = [callConn EXCEPT ![t] = NULL]

Enter(t) == pc[t] = "idle"

Goto(t, op, label, c) ==
    /\ pc' = [pc EXCEPT ![t] = label]
    /\ lastOp' = [lastOp EXCEPT ![t] = op]
    /\ ret' = [ret EXCEPT ![t] = [err |-> Ok, val |-> NoResult]]
    /\ callConn' = [callConn EXCEPT ![t] = c]

\* ---------------------------------------------------- session operations

\* a guard that never sees the pending transaction
hasPendingTransactionNever(w) == FALSE

\* a guard that looks at the auto-commit transaction instead of the explicit one
hasPendingTransactionAuto(w) == w.autocommitTx # NULL

\* "Guard for more than one transaction per session"
hasPendingTransaction(w) == w.explicitTx # NULL

\* a pre-flight that leaves a pending auto-commit transaction alone
preflightKeepsAutocommit(w, o, timeout) ==
    IF hasPendingTransaction(w) THEN [w EXCEPT !.err = UsageError]
    ELSE LET config == [defaultTransactionConfig EXCEPT !.Timeout = timeout]
         IN [w EXCEPT !.obs.timeout = config.Timeout,
                      !.err = validateTransactionConfig(config)]

\* what BeginTransaction, Run and runRetriable do before they acquire a
\* connection: the guard, the pending auto-commit, the configuration
preflight(w, o, timeout) ==
    IF hasPendingTransaction(w) THEN [w EXCEPT !.err = UsageError]
    ELSE LET w1 == IF w.autocommitTx # NULL THEN done(w, o) ELSE w
             config == [defaultTransactionConfig EXCEPT !.Timeout = timeout]
         IN [w1 EXCEPT !.obs.timeout = config.Timeout,
                       !.err = validateTransactionConfig(config)]

PreflightInputs(w) ==
    IF hasPendingTransaction(w) THEN NoStream ELSE EndInputs(w, w.autocommitTx, {Streaming})
PreflightTimeouts(w) ==
    IF hasPendingTransaction(w) THEN {MinInt} ELSE Timeouts

\* BeginTransaction up to the connection acquisition
BeginTransaction(t) ==
    /\ Enter(t)
    /\ \E o \in PreflightInputs(St), timeout \in PreflightTimeouts(St) :
         LET w1 == preflight(St, o, timeout) IN
         /\ Install(w1)
         /\ IF w1.err # Ok
            THEN Return(t, "BeginTransaction", w1.err, NoResult)
            ELSE Goto(t, "BeginTransaction", "begin", NULL)
    /\ UNCHANGED << rs, work, configBookmarks >>

\* BeginTransaction from the connection acquisition on
BeginTransactionBody(t) ==
    /\ pc[t] = "begin"
    /\ \E g \in AcquireInputs(St) :
         LET w1 == getConnection(St, defaultMode, g) IN
         IF w1.err # Ok
         THEN /\ Return(t, "BeginTransaction", w1.err, NoResult)
              /\ Install(w1)
         ELSE \E reply \in Replies :
              LET w2 == ConnTxBegin(txConfig(w1, w1.defaultMode), w1.conn, w1.bookmarks, reply) IN
              IF w2.err # Ok
              THEN /\ Return(t, "BeginTransaction", w2.err, NoResult)
                   /\ Install(poolReturn(w2, w2.conn))
              ELSE /\ Return(t, "BeginTransaction", Ok, << w2.conn >>)
                   /\ Install([w2 EXCEPT !.explicitTx = w2.conn,
                                         !.txHandles = @ \cup {w2.conn}])
    /\ UNCHANGED << rs, work, configBookmarks >>

\* the caller works inside its explicit transaction (tx.Run and the result)
ExplicitTxRun(t) ==
    /\ Enter(t)
    /\ \E c \in txHandles, reply \in Replies :
         /\ connState[c] = Tx
         /\ Install([St EXCEPT !.connState[c] = IF reply = "success" THEN Tx ELSE StateOf(reply)])
         /\ Return(t, "TxRun", IF reply = "success" THEN Ok ELSE ErrOf(reply), NoResult)
    /\ UNCHANGED << rs, work, configBookmarks >>

Commit(t) ==
    /\ Enter(t)
    /\ \E c \in txHandles : \E o \in EndInputs(St, c, {Tx, StreamingTx}) :
         LET w1 == explicitCommit(St, c, o) IN
         /\ Install(w1)
         /\ Return(t, "Commit", w1.err, NoResult)
    /\ UNCHANGED << rs, work, configBookmarks >>

Rollback(t) ==
    /\ Enter(t)
    /\ \E c \in txHandles : \E o \in ReplyInputs(St, c, {Tx, StreamingTx}) :
         LET w1 == explicitRollback(St, c, o) IN
         /\ Install(w1)
         /\ Return(t, "Rollback", w1.err, NoResult)
    /\ UNCHANGED << rs, work, configBookmarks >>

\* Run up to the connection acquisition
Run(t) ==
    /\ Enter(t)
    /\ \E o \in PreflightInputs(St), timeout \in PreflightTimeouts(St) :
         LET w1 == preflight(St, o, timeout) IN
         /\ Install(w1)
         /\ IF w1.err # Ok
            THEN Return(t, "Run", w1.err, NoResult)
            ELSE Goto(t, "Run", "run", NULL)
    /\ UNCHANGED << rs, work, configBookmarks >>

\* Run from the connection acquisition on
RunBody(t) ==
    /\ pc[t] = "run"
    /\ \E g \in AcquireInputs(St) :
         LET w1 == getConnection(St, defaultMode, g) IN
         IF w1.err # Ok
         THEN /\ Return(t, "Run", w1.err, NoResult)
              /\ Install(w1)
         ELSE \E reply \in Replies :
              LET w2 == ConnRun(txConfig(w1, w1.defaultMode), w1.conn, w1.bookmarks, reply) IN
              IF w2.err # Ok
              THEN /\ Return(t, "Run", w2.err, NoResult)
                   /\ Install(poolReturn(w2, w2.conn))
              ELSE /\ Return(t, "Run", Ok, << w2.conn >>)
                   /\ Install([w2 EXCEPT !.autocommitTx = w2.conn])
    /\ UNCHANGED << rs, work, configBookmarks >>

\* the caller reads the auto-commit result to its end (result.Next / Consume)
ResultConsume(t) ==
    /\ Enter(t)
    /\ autocommitTx # NULL
    /\ connState[autocommitTx] = Streaming
    /\ \E o \in StreamInputs :
         LET w1 == FinishStream(St, autocommitTx, o.reply, o.bm) IN
         /\ Install(w1)
         /\ Return(t, "Consume", w1.err, NoResult)
    /\ UNCHANGED << rs, work, configBookmarks >>

\* s.LastBookmarks()
LastBookmarks(t) ==
    /\ Enter(t)
    /\ LET w1 == IF autocommitTx # NULL THEN retrieveBookmarks(St, autocommitTx) ELSE St IN
         /\ Install(w1)
         /\ Return(t, "LastBookmarks", Ok, << "bookmarks", w1.bookmarks >>)
    /\ UNCHANGED << rs, work, configBookmarks >>

\* combineAllErrors(txErr, poolErr, routerErr): nil only when all are nil
combineAllErrors(txErr, poolErr, routerErr) ==
    IF txErr # Ok THEN txErr
    ELSE IF poolErr # Ok THEN poolErr
    ELSE routerErr

CleanUpResults == {Ok, ConnectivityError}

\* a Close that starts the cleanups only when the transaction closed cleanly
CloseGoroutinesUnlessTxErr(txErr) ==
    IF txErr # Ok THEN {} ELSE {"pool", "router"}

\* the goroutines Close starts, whatever txErr is
CloseGoroutines(txErr) == {"pool", "router"}

\* capacity of poolErrChan and routerErrChan: make(chan error, 1)
ChanCap == 1

\* s.Close(ctx) up to the first receive: the pending transactions are closed,
\* the channels made and the two goroutines started
Close(t) ==
    /\ Enter(t)
    /\ \E o1 \in ReplyInputs(St, explicitTx, {Tx, StreamingTx}),
          o2 \in EndInputs(St, autocommitTx, {Streaming}) :
         LET w1 == IF explicitTx # NULL THEN explicitClose(St, explicitTx, o1)
                   ELSE [St EXCEPT !.err = Ok]
             txErr == w1.err
             w2 == IF w1.autocommitTx # NULL THEN discard(w1, o2) ELSE w1
         IN /\ Install([w2 EXCEPT !.closing = [NoClosing EXCEPT !.txErr = txErr,
                                                 !.todo = CloseGoroutines(txErr)]])
            /\ Goto(t, "Close", "close", NULL)
    /\ UNCHANGED << rs, work, configBookmarks >>

\* go func() { poolErrChan <- s.pool.CleanUp(ctx) }()
PoolCleanUp(t) ==
    /\ pc[t] = "close"
    /\ "pool" \in closing.todo
    /\ Len(closing.poolErrChan) < ChanCap
    /\ \E poolErr \in CleanUpResults :
         Install([St EXCEPT !.closing = [closing EXCEPT
                     !.todo = @ \ {"pool"},
                     !.finished = Append(@, "pool"),
                     !.poolErrChan = Append(@, poolErr)]])
    /\ UNCHANGED << pc, lastOp, ret, callConn, rs, work, configBookmarks >>

\* go func() { routerErrChan <- s.router.CleanUp(ctx) }()
RouterCleanUp(t) ==
    /\ pc[t] = "close"
    /\ "router" \in closing.todo
    /\ Len(closing.routerErrChan) < ChanCap
    /\ \E routerErr \in CleanUpResults :
         Install([St EXCEPT !.closing = [closing EXCEPT
                     !.todo = @ \ {"router"},
                     !.finished = Append(@, "router"),
                     !.routerErrChan = Append(@, routerErr)]])
    /\ UNCHANGED << pc, lastOp, ret, callConn, rs, work, configBookmarks >>

\* <-poolErrChan, the first receive of the return statement
CloseReceivePool(t) ==
    /\ pc[t] = "close"
    /\ closing.poolErr = "none"
    /\ closing.poolErrChan # << >>
    /\ Install([St EXCEPT !.closing = [closing EXCEPT
                    !.poolErr = Head(closing.poolErrChan),
                    !.poolErrChan = Tail(@)]])
    /\ UNCHANGED << pc, lastOp, ret, callConn, rs, work, configBookmarks >>

\* <-routerErrChan, then return combineAllErrors(txErr, ..., ...)
CloseReturn(t) ==
    /\ pc[t] = "close"
    /\ closing.poolErr # "none"
    /\ closing.routerErrChan # << >>
    /\ LET routerErr == Head(closing.routerErrChan) IN
         /\ Install([St EXCEPT !.closing = [closing EXCEPT
                         !.routerErr = routerErr,
                         !.routerErrChan = Tail(@)]])
         /\ Return(t, "Close",
                   combineAllErrors(closing.txErr, closing.poolErr, routerErr), NoResult)
    /\ UNCHANGED << rs, work, configBookmarks >>

\* a getServerInfo that keeps the connection it borrowed
serverInfoReturnNone(w, c) == w

\* "defer s.pool.Return(ctx, conn)" of getServerInfo
serverInfoReturn(w, c) == poolReturn(w, c)

\* s.getServerInfo(ctx)
getServerInfo(t) ==
    /\ Enter(t)
    /\ \E g \in AcquireInputs(St) :
         LET w1 == resolveHomeDatabase(St, g.resolveOk, g.home) IN
         IF w1.err # Ok
         THEN /\ Install(w1) /\ Return(t, "getServerInfo", w1.err, NoResult)
         ELSE LET ws == getServers(w1, ReadMode, g.serversOk) IN
         IF ws.err # Ok
         THEN /\ Install(ws) /\ Return(t, "getServerInfo", ws.err, NoResult)
         ELSE LET w2 == Borrow(ws, g.conn, FALSE, acquisitionWait(ws)) IN
              IF w2.err # Ok
              THEN /\ Install(w2) /\ Return(t, "getServerInfo", w2.err, NoResult)
              ELSE /\ Install(serverInfoReturn(w2, w2.conn))
                   /\ Return(t, "getServerInfo", Ok, << w2.conn >>)
    /\ UNCHANGED << rs, work, configBookmarks >>

\* ------------------------------------------------- managed transactions
NoWork == [attempts |-> 0, calls |-> 0, retryable |-> FALSE]

\* a FAILURE from the server is transient or not
Classify(err, transient) ==
    IF err = DatabaseError /\ transient THEN TransientError ELSE err

\* how an invocation of the work function ends: the error it returns and the
\* state it leaves the connection in
WorkOutcomes ==
    { [err |-> Ok, state |-> Tx],
      [err |-> Ok, state |-> Failed],
      [err |-> UserError, state |-> Tx],
      [err |-> TransientError, state |-> Failed],
      [err |-> DatabaseError, state |-> Failed],
      [err |-> ConnectivityError, state |-> Dead] }

\* the callback that invalidates the server in the other role
OnDeadConnectionSwapped(w, mode) ==
    [w EXCEPT !.obs.invalidated =
        Append(@, IF mode = WriteMode THEN "InvalidateReader" ELSE "InvalidateWriter")]

\* retry.State.OnDeadConnection as runRetriable sets it: the router call made
\* for the session's database
OnDeadConnection(w, mode) ==
    [w EXCEPT !.obs.invalidated =
        Append(@, IF mode = WriteMode THEN "InvalidateWriter" ELSE "InvalidateReader")]

\* OnFailure calls OnDeadConnection when the connection died and the attempt
\* can be made again
afterFailure(w, connSt, isCommitting, mode) ==
    IF connSt = Dead /\ ~isCommitting THEN OnDeadConnection(w, mode) ELSE w

\* a deferred Return that skips a connection that died
deferredReturnIfAlive(w, c) ==
    IF w.connState[c] = Dead THEN w ELSE poolReturn(w, c)

\* "defer s.pool.Return(ctx, conn)" of executeTransactionFunction
deferredReturn(w, c) == poolReturn(w, c)

\* an error check that lets every result of work through
workFailedNever(err) == FALSE

\* "if err != nil" after x, err := work(&tx)
workFailed(err) == err # Ok

\* the mode ExecuteRead and ExecuteWrite hand to runRetriable
ModeOf(op) == IF op = "ExecuteWrite" THEN WriteMode ELSE ReadMode

\* runRetriable up to the retry loop (ExecuteRead and ExecuteWrite)
runRetriable(t, op) ==
    /\ Enter(t)
    /\ \E o \in PreflightInputs(St), timeout \in PreflightTimeouts(St) :
         LET w1 == preflight(St, o, timeout) IN
         /\ Install(w1)
         /\ IF w1.err # Ok
            THEN Return(t, op, w1.err, NoResult)
            ELSE Goto(t, op, "retry", NULL)
    /\ rs' = [rs EXCEPT ![t] = NewState]
    /\ work' = [work EXCEPT ![t] = NoWork]
    /\ UNCHANGED configBookmarks

ExecuteRead(t) == runRetriable(t, "ExecuteRead")

ExecuteWrite(t) == runRetriable(t, "ExecuteWrite")

\* the error runRetriable returns when the loop has ended
retriableError(r) ==
    IF r.LastErrWasRetryable
    THEN [err |-> TransactionExecutionLimit, val |-> << "errors", r.Errs, r.Causes >>]
    ELSE [err |-> r.LastErr, val |-> NoResult]

\* no run of the loop makes more attempts than the deadline and the limit of
\* dead connections allow
MaxAttempts == MaxTransactionRetryTime + MaxConnectionPoolSize + 3

\* one turn of "for state.Continue()": either the loop ends and runRetriable
\* returns the error, or executeTransactionFunction runs up to the call of work
RetryLoop(t) ==
    /\ pc[t] = "retry"
    /\ work[t].attempts < MaxAttempts
    /\ \E d \in SleepDelays :
         LET k == Continue(rs[t], d) IN
         IF ~k.go
         THEN /\ Return(t, lastOp[t], retriableError(k.r).err, retriableError(k.r).val)
              /\ Install(St)
              /\ rs' = [rs EXCEPT ![t] = NewState]
              /\ work' = [work EXCEPT ![t] = NoWork]
         ELSE \E g \in AcquireInputs(St) :
              LET w1 == getConnection(St, ModeOf(lastOp[t]), g) IN
              IF w1.err # Ok
              THEN /\ Install(w1)
                   /\ rs' = [rs EXCEPT ![t] = OnFailure(k.r, "nil", w1.err, FALSE)]
                   /\ work' = [work EXCEPT ![t].attempts = @ + 1,
                                           ![t].retryable = RetryableClass("nil", w1.err, FALSE)]
                   /\ UNCHANGED << pc, lastOp, ret, callConn >>
              ELSE \E reply \in Replies, transient \in BOOLEAN :
                   LET w2 == ConnTxBegin(txConfig(w1, ModeOf(lastOp[t])), w1.conn,
                                         w1.bookmarks, reply)
                       e == Classify(w2.err, transient)
                   IN IF w2.err # Ok
                      THEN /\ Install(deferredReturn(
                                        afterFailure(w2, w2.connState[w2.conn], FALSE,
                                                     ModeOf(lastOp[t])), w2.conn))
                           /\ rs' = [rs EXCEPT ![t] =
                                        OnFailure(k.r, w2.connState[w2.conn], e, FALSE)]
                           /\ work' = [work EXCEPT ![t].attempts = @ + 1,
                                          ![t].retryable =
                                             RetryableClass(w2.connState[w2.conn], e, FALSE)]
                           /\ UNCHANGED << pc, lastOp, ret, callConn >>
                      ELSE /\ Install(w2)
                           /\ rs' = [rs EXCEPT ![t] = k.r]
                           /\ work' = [work EXCEPT ![t].attempts = @ + 1,
                                                   ![t].calls = @ + 1]
                           /\ Goto(t, lastOp[t], "work", w2.conn)
    /\ UNCHANGED configBookmarks

\* work(&tx) returns; the rest of executeTransactionFunction
WorkReturns(t) ==
    /\ pc[t] = "work"
    /\ \E out \in WorkOutcomes :
         LET c == callConn[t]
             w1 == [St EXCEPT !.connState[c] = out.state, !.obs.work = out.err]
             r1 == rs[t]
             mode == ModeOf(lastOp[t])
         IN IF workFailed(out.err)
            THEN /\ Install(deferredReturn(afterFailure(w1, out.state, FALSE, mode), c))
                 /\ rs' = [rs EXCEPT ![t] = OnFailure(r1, out.state, out.err, FALSE)]
                 /\ work' = [work EXCEPT ![t].retryable =
                                            RetryableClass(out.state, out.err, FALSE)]
                 /\ Goto(t, lastOp[t], "retry", NULL)
            ELSE \E o \in EndInputs(w1, c, {Tx}), transient \in BOOLEAN :
                 LET w2 == ConnTxCommit(w1, c, o.reply, o.bm)
                     e == Classify(w2.err, transient)
                 IN IF w2.err # Ok
                    THEN /\ Install(deferredReturn(
                                      afterFailure(w2, w2.connState[c], TRUE, mode), c))
                         /\ rs' = [rs EXCEPT ![t] = OnFailure(r1, w2.connState[c], e, TRUE)]
                         /\ work' = [work EXCEPT ![t].retryable =
                                                    RetryableClass(w2.connState[c], e, TRUE)]
                         /\ Goto(t, lastOp[t], "retry", NULL)
                    ELSE /\ Install(deferredReturn(retrieveBookmarks(w2, c), c))
                         /\ Return(t, lastOp[t], Ok, << work[t].calls >>)
                         /\ rs' = [rs EXCEPT ![t] = NewState]
                         /\ work' = [work EXCEPT ![t] = NoWork]
    /\ UNCHANGED configBookmarks

\* ------------------------------------------- a connection used directly
\* The caller drives one bolt connection itself, request by request, and
\* sees what each request returns.
BoltRun(c) ==
    /\ \E reply \in ConnReplies :
         LET w1 == ConnRun(St, c, << >>, reply) IN
         /\ Install(w1)
         /\ Return(1, "conn.Run", w1.err, << c >>)
    /\ UNCHANGED << rs, work, configBookmarks >>

\* Next, Buffer or Consume on the attached stream, up to its summary
BoltNext(c) ==
    /\ connState[c] \in {Streaming, StreamingTx}
    /\ \E o \in ConnStreamInputs :
         LET w1 == IF connState[c] = Streaming
                   THEN FinishStream(St, c, o.reply, o.bm)
                   ELSE FinishStreamTx(St, c, o.reply)
         IN /\ Install(w1)
            /\ Return(1, "conn.Next", w1.err, << c >>)
    /\ UNCHANGED << rs, work, configBookmarks >>

BoltTxBegin(c) ==
    /\ \E reply \in ConnReplies :
         LET w1 == ConnTxBegin(St, c, << >>, reply) IN
         /\ Install(w1)
         /\ Return(1, "conn.TxBegin", w1.err, << c >>)
    /\ UNCHANGED << rs, work, configBookmarks >>

BoltRunTx(c) ==
    /\ \E reply \in ConnReplies :
         LET w1 == ConnRunTx(St, c, reply) IN
         /\ Install(w1)
         /\ Return(1, "conn.RunTx", w1.err, << c >>)
    /\ UNCHANGED << rs, work, configBookmarks >>

BoltTxCommit(c) ==
    /\ \E o \in ConnStreamInputs :
         LET w1 == ConnTxCommit(St, c, o.reply, o.bm) IN
         /\ Install(w1)
         /\ Return(1, "conn.TxCommit", w1.err, << c >>)
    /\ UNCHANGED << rs, work, configBookmarks >>

BoltTxRollback(c) ==
    /\ \E reply \in ConnReplies :
         LET w1 == ConnTxRollback(St, c, reply) IN
         /\ Install(w1)
         /\ Return(1, "conn.TxRollback", w1.err, << c >>)
    /\ UNCHANGED << rs, work, configBookmarks >>

BoltReset(c) ==
    /\ \E replies \in ResetReplies :
         LET w1 == ConnReset(St, c, replies) IN
         /\ Install(w1)
         /\ Return(1, "conn.Reset", w1.err, << c >>)
    /\ UNCHANGED << rs, work, configBookmarks >>

\* ------------------------------------------------- the stream of a query
\* The caller drives connection 1 and reads the stream of its last query
\* with Next, Buffer and Consume. The server sends the records of a batch,
\* then the summary of the batch: with has_more while records remain, final
\* otherwise.
FetchSizes == {-1, 1, 2}

\* what a Run is given: the reply to RUN and, for a query that runs, its
\* fetch size and the number of records of its result; a Run the
\* connection refuses is given nothing
RunInputs(refused) ==
    IF refused THEN {[reply |-> "success", k |-> -1, n |-> 0]}
    ELSE [reply : {"success"}, k : FetchSizes, n : 0..MaxRecords]
         \cup [reply : {"failure", "dead"}, k : {-1}, n : {0}]

\* what a request that reads for the stream s may find: the read number
\* `at` finds a FAILURE or a closed socket instead of the server's next
\* message (Next reads a summary with has_more and a record at most, the
\* others the records left and two summaries at most); more is the has_more flag of the server's reply to DISCARD, bm
\* the bookmark of the final summary of an auto-commit query
ReadInputs(s, mode) ==
    IF ~s.open \/ s.end # "none"
    THEN {[at |-> 0, kind |-> "none", more |-> FALSE, bm |-> "", known |-> TRUE]}
    ELSE [at : {0}, kind : {"none"},
          more : IF mode = "discard" THEN BOOLEAN ELSE {FALSE},
          bm : IF s.tx THEN {""} ELSE {"", "b1"}, known : {TRUE}]
         \cup [at : 1..(IF mode = "next" THEN 2 ELSE s.batch + s.server + 2),
                kind : {"FAILURE", "CLOSED"},
                more : {FALSE}, bm : {""}, known : {TRUE}]

\* a call made with a handle that is none of the connection's streams, such
\* as idb.StreamHandle(1)
UnknownHandle == [at |-> 0, kind |-> "none", more |-> FALSE, bm |-> "", known |-> FALSE]

\* the connection looks the handle up among its streams
knownStream(w, in) == in.known /\ w.stream.open

\* the records PULL(n) asks for when the server still has `left`
Batch(n, left) == IF n = -1 \/ n > left THEN left ELSE n

\* Run and RunTx pipeline the first PULL with the stream's fetch size
openStream(w, k, n) ==
    [w EXCEPT !.stream = [NoStreamRec EXCEPT !.open = TRUE,
                                             !.tx = (w.connState[1] = StreamingTx),
                                             !.fetch = k, !.total = n,
                                             !.batch = Batch(k, n),
                                             !.server = n - Batch(k, n),
                                             !.pulls = << k >>]]

\* a stream cut off from its connection (failure, socket error, RESET) gets
\* the error
closeStream(w) ==
    IF w.stream.open /\ w.stream.end = "none" /\ w.attached[1] = 0
    THEN [w EXCEPT !.stream.end = "error",
                   !.stream.err = IF w.connState[1] = Dead THEN ConnectivityError
                                  ELSE IF w.connState[1] = Failed THEN DatabaseError
                                  ELSE UsageError]
    ELSE w

\* PULL(n) for the next batch
sendPull(w, n) ==
    [send(w, << "PULL" >>) EXCEPT !.stream.pulls = Append(@, n),
                                  !.stream.batch = Batch(n, w.stream.server),
                                  !.stream.server = @ - Batch(n, w.stream.server)]

\* DISCARD(-1): the server drops what is left of the result
sendDiscard(w) ==
    [send(w, << "DISCARD" >>) EXCEPT !.stream.discards = @ + 1,
                                     !.stream.batch = 0, !.stream.server = 0]

\* a discard that believes the has_more of the reply to its DISCARD
afterBatchDiscardAgain(w, c, mode, in) ==
    IF mode = "next" THEN sendPull(w, w.stream.fetch)
    ELSE IF mode = "buffer" THEN sendPull(w, -1)
    ELSE sendDiscard(w)

\* the summary that ends the stream: the connection leaves the streaming
\* state; the summary of an auto-commit query carries the bookmark
endOfStream(w, c, in) ==
    LET w1 == IF w.connState[c] = StreamingTx
              THEN FinishStreamTx(w, c, "success")
              ELSE FinishStream(w, c, "success", in.bm)
    IN [w1 EXCEPT !.stream.end = "summary",
                  !.stream.bm = IF w.stream.tx THEN "" ELSE in.bm]

\* a Next that asks for all the rest after the first batch
afterBatchPullAll(w, c, mode, in) ==
    IF w.stream.discards > 0 THEN endOfStream(w, c, in)
    ELSE IF mode \in {"next", "buffer"} THEN sendPull(w, -1)
    ELSE sendDiscard(w)

\* the summary of a batch with has_more: Next asks for the next batch with
\* the fetch size, Buffer for all the rest, Consume and the end of a
\* transaction discard the rest; the has_more of the reply to a DISCARD is
\* not followed
afterBatch(w, c, mode, in) ==
    IF w.stream.discards > 0 THEN endOfStream(w, c, in)
    ELSE IF mode = "next" THEN sendPull(w, w.stream.fetch)
    ELSE IF mode = "buffer" THEN sendPull(w, -1)
    ELSE sendDiscard(w)

\* the next message of the server for the stream
ServerNext(s, in, n) ==
    IF in.at = n THEN in.kind
    ELSE IF s.batch > 0 THEN "RECORD"
    ELSE IF s.server > 0 \/ (s.discards = 1 /\ in.more) THEN "HAS_MORE"
    ELSE "SUMMARY"

\* the connection handles one message read for its attached stream
onMessage(w, c, msg, mode, in) ==
    LET s == w.stream
        w0 == [w EXCEPT !.obs.replies = Append(@, msg)] IN
    IF msg = "RECORD"
    THEN [w0 EXCEPT !.stream.batch = @ - 1,
                    !.stream.fifo = IF mode = "discard" THEN @
                                    ELSE Append(@, s.total - s.server - s.batch + 1)]
    ELSE IF msg = "HAS_MORE" THEN afterBatch(w0, c, mode, in)
    ELSE IF msg = "SUMMARY" THEN endOfStream(w0, c, in)
    ELSE closeStream(connFail(w, c, IF msg = "FAILURE" THEN "failure" ELSE "dead"))

\* read for the attached stream: Next up to the first record, the others up
\* to the end of the stream
RECURSIVE pump(_, _, _, _, _)
pump(w, c, mode, in, n) ==
    IF ~w.stream.open \/ w.stream.end # "none" THEN w
    ELSE LET msg == ServerNext(w.stream, in, n)
             w1 == onMessage(w, c, msg, mode, in)
         IN IF mode = "next" /\ msg = "RECORD" THEN w1
            ELSE pump(w1, c, mode, in, n + 1)

\* a hand-out that forgets the error of the stream once it has returned it
handOutErrorOnce(w) ==
    LET s == w.stream IN
    IF s.fifo # << >>
    THEN [w EXCEPT !.stream.fifo = Tail(@), !.stream.delivered = Append(@, Head(s.fifo)),
                   !.err = Ok, !.val = << "record", Head(s.fifo) >>]
    ELSE IF s.end = "error"
         THEN [w EXCEPT !.err = s.err, !.val = NoResult,
                        !.stream.end = "summary", !.stream.err = Ok]
    ELSE [w EXCEPT !.err = Ok, !.val = << "summary", s.bm >>]

\* what Next hands out of a stream that needs no read: the oldest buffered
\* record, else the stream's error, else its summary
handOut(w) ==
    LET s == w.stream IN
    IF s.fifo # << >>
    THEN [w EXCEPT !.stream.fifo = Tail(@), !.stream.delivered = Append(@, Head(s.fifo)),
                   !.err = Ok, !.val = << "record", Head(s.fifo) >>]
    ELSE IF s.end = "error" THEN [w EXCEPT !.err = s.err, !.val = NoResult]
    ELSE [w EXCEPT !.err = Ok, !.val = << "summary", s.bm >>]

\* a Next that gives up the buffered records of a dead connection
StreamNextOnLiveConnection(w, c, in) ==
    IF ~w.stream.open THEN [w EXCEPT !.err = UsageError]
    ELSE IF w.connState[c] = Dead THEN [w EXCEPT !.err = ConnectivityError]
    ELSE IF w.stream.fifo # << >> THEN handOut(w)
    ELSE handOut(pump(w, c, "next", in, 1))

\* conn.Next(ctx, stream)
StreamNext(w, c, in) ==
    IF ~w.stream.open THEN [w EXCEPT !.err = UsageError]
    ELSE IF w.stream.fifo # << >> THEN handOut(w)
    ELSE handOut(pump(w, c, "next", in, 1))

\* a Buffer that does not look the handle up and works on the stream the
\* connection has
StreamBufferAnyHandle(w, c, in) ==
    LET w1 == pump(w, c, "buffer", in, 1) IN
    [w1 EXCEPT !.err = IF w1.stream.end = "error" /\ w1.stream.fifo = << >>
                       THEN w1.stream.err ELSE Ok]

\* a Buffer that reports the failure of the stream at once
StreamBufferReportsFailure(w, c, in) ==
    IF ~knownStream(w, in) THEN [w EXCEPT !.err = UsageError]
    ELSE LET w1 == pump(w, c, "buffer", in, 1) IN
         [w1 EXCEPT !.err = IF w1.stream.end = "error" THEN w1.stream.err ELSE Ok]

\* conn.Buffer(ctx, stream): the error of a stream that failed stays behind
\* the records buffered before it
StreamBuffer(w, c, in) ==
    IF ~knownStream(w, in) THEN [w EXCEPT !.err = UsageError]
    ELSE LET w1 == pump(w, c, "buffer", in, 1) IN
         [w1 EXCEPT !.err = IF w1.stream.end = "error" /\ w1.stream.fifo = << >>
                            THEN w1.stream.err ELSE Ok]

\* a Consume that leaves the buffered records in the stream
StreamConsumeKeepsRecords(w, c, in) ==
    IF ~knownStream(w, in) THEN [w EXCEPT !.err = UsageError]
    ELSE handOut(pump(w, c, "discard", in, 1))

\* conn.Consume(ctx, stream): the records are dropped, the summary or the
\* error of the stream returned
StreamConsume(w, c, in) ==
    IF ~knownStream(w, in) THEN [w EXCEPT !.err = UsageError]
    ELSE handOut(pump([w EXCEPT !.stream.fifo = << >>], c, "discard", in, 1))

\* the end of a transaction first discards the stream that is still attached
StreamTxEnd(w, c, in) ==
    IF w.connState[c] = StreamingTx THEN pump(w, c, "discard", in, 1) ELSE w

\* the handle the caller gives to Buffer or Consume
handleGiven(w, in) ==
    [w EXCEPT !.obs.handle = IF in.known /\ w.stream.open THEN "known" ELSE "unknown"]

SRun(c) ==
    /\ \E i \in RunInputs(connState[c] \notin {Ready, Tx}) :
         LET w1 == ConnRun(St, c, << >>, i.reply)
             w2 == IF w1.err = Ok THEN openStream(w1, i.k, i.n) ELSE closeStream(w1)
         IN /\ Install(w2)
            /\ Return(1, "conn.Run", w2.err, << c >>)
    /\ UNCHANGED << rs, work, configBookmarks >>

SRunTx(c) ==
    /\ \E i \in RunInputs(connState[c] # Tx) :
         LET w1 == ConnRunTx(St, c, i.reply)
             w2 == IF w1.err = Ok THEN openStream(w1, i.k, i.n) ELSE closeStream(w1)
         IN /\ Install(w2)
            /\ Return(1, "conn.RunTx", w2.err, << c >>)
    /\ UNCHANGED << rs, work, configBookmarks >>

SNext(c) ==
    /\ \E in \in ReadInputs(stream, "next") :
         LET w1 == StreamNext(St, c, in) IN
         /\ Install(w1)
         /\ Return(1, "conn.Next", w1.err, w1.val)
    /\ UNCHANGED << rs, work, configBookmarks >>

SBuffer(c) ==
    /\ \E in \in ReadInputs(stream, "buffer") \cup {UnknownHandle} :
         LET w1 == StreamBuffer(handleGiven(St, in), c, in) IN
         /\ Install(w1)
         /\ Return(1, "conn.Buffer", w1.err, NoResult)
    /\ UNCHANGED << rs, work, configBookmarks >>

SConsume(c) ==
    /\ \E in \in ReadInputs(stream, "discard") \cup {UnknownHandle} :
         LET w1 == StreamConsume(handleGiven(St, in), c, in) IN
         /\ Install(w1)
         /\ Return(1, "conn.Consume", w1.err, w1.val)
    /\ UNCHANGED << rs, work, configBookmarks >>

STxBegin(c) ==
    /\ \E reply \in Replies :
         LET w1 == closeStream(ConnTxBegin(St, c, << >>, reply)) IN
         /\ Install(w1)
         /\ Return(1, "conn.TxBegin", w1.err, << c >>)
    /\ UNCHANGED << rs, work, configBookmarks >>

STxCommit(c) ==
    /\ \E in \in ReadInputs(stream, "discard"),
          o \in EndInputs(St, c, {Tx, StreamingTx}) :
         LET w0 == StreamTxEnd(St, c, in)
             w1 == IF w0.err = Ok THEN ConnTxCommit(w0, c, o.reply, o.bm) ELSE w0
         IN /\ Install(w1)
            /\ Return(1, "conn.TxCommit", w1.err, << c >>)
    /\ UNCHANGED << rs, work, configBookmarks >>

STxRollback(c) ==
    /\ \E in \in ReadInputs(stream, "discard"),
          o \in ReplyInputs(St, c, {Tx, StreamingTx}) :
         LET w0 == StreamTxEnd(St, c, in)
             w1 == IF w0.err = Ok THEN ConnTxRollback(w0, c, o.reply) ELSE w0
         IN /\ Install(w1)
            /\ Return(1, "conn.TxRollback", w1.err, << c >>)
    /\ UNCHANGED << rs, work, configBookmarks >>

SReset(c) ==
    /\ \E replies \in ResetReplies :
         LET w1 == closeStream(ConnReset(St, c, replies)) IN
         /\ Install(w1)
         /\ Return(1, "conn.Reset", w1.err, << c >>)
    /\ UNCHANGED << rs, work, configBookmarks >>

\* ------------------------------------------------------ testkit backend
\* The backend serves one frontend: it reads a request, handles it and
\* writes responses. A SessionReadTransaction / SessionWriteTransaction
\* request runs ExecuteRead / ExecuteWrite with a work function that hands
\* control back to the frontend and handles its requests until the frontend
\* says how the attempt ended. Ids are numbers here (the code formats the
\* counter as a decimal string); 0 stands for the empty error id.
retryableNothing == 0
retryablePositive == 1
retryableNegative == -1

\* *frontendError, the error of a work function the frontend failed
FrontendErr == "frontendError"

\* errors of the driver that writeError reports as DriverError
DriverErrors == {UsageError, ConnectivityError, DatabaseError, TransientError,
                 TransactionExecutionLimit}

\* newBackend(rd, wr); at: where handleTransactionFunc is ("idle": not
\* running, "session": inside ExecuteRead/ExecuteWrite outside the work
\* function, "work": inside the work function); out: the responses written
\* since the request began, as << name, id >>; tries: invocations of the work
\* function; req: the request handled last; workErr: what the work function
\* returned last; result: what ExecuteRead/ExecuteWrite returned
newBackend ==
    [id |-> 0, retryableState |-> retryableNothing, retryableErrorId |-> 0,
     managedTransactions |-> {}, results |-> {}, recordedErrors |-> {},
     at |-> "idle", call |-> "none", out |-> << >>, tries |-> 0,
     req |-> "none", workErr |-> "none", result |-> "none"]

\* an id counter that hands out the current value without advancing
nextIdNoIncrement(b) == b

\* b.nextId(): the new id is the id field of the result
nextId(b) == [b EXCEPT !.id = @ + 1]

\* b.writeResponse(name, data)
writeResponse(b, name, id) == [b EXCEPT !.out = Append(@, << name, id >>)]

\* b.setError(err)
setError(b, err) ==
    LET b1 == nextId(b) IN [b1 EXCEPT !.recordedErrors = @ \cup {<< b1.id, err >>}]

\* b.recordedErrors[id]: nil when nothing is recorded under id
recordedError(b, id) ==
    IF \E p \in b.recordedErrors : p[1] = id
    THEN (CHOOSE p \in b.recordedErrors : p[1] = id)[2]
    ELSE Ok

\* b.writeError(err)
writeError(b, err) ==
    IF err \in DriverErrors
    THEN LET b1 == setError(b, err) IN writeResponse(b1, "DriverError", b1.id)
    ELSE IF err = FrontendErr THEN writeResponse(b, "FrontendError", 0)
    ELSE writeResponse(b, "BackendError", 0)

\* the requests a frontend sends while its work function runs
WorkRequests(b) ==
    {[name |-> "RetryablePositive", errorId |-> 0, err |-> Ok]}
    \cup {[name |-> "RetryableNegative", errorId |-> i, err |-> Ok] : i \in 0..MaxId}
    \cup (IF b.id < MaxId
          THEN {[name |-> "TransactionRun", errorId |-> 0, err |-> e] :
                   e \in {Ok, DatabaseError}}
          ELSE {})

\* b.handleRequest(req) for the requests above
handleRequest(b, req) ==
    LET b0 == [b EXCEPT !.req = req.name] IN
    IF req.name = "RetryablePositive"
    THEN [b0 EXCEPT !.retryableState = retryablePositive]
    ELSE IF req.name = "RetryableNegative"
    THEN [b0 EXCEPT !.retryableState = retryableNegative,
                    !.retryableErrorId = req.errorId]
    ELSE IF req.err # Ok THEN writeError(b0, req.err)
    ELSE LET b1 == nextId(b0) IN
         writeResponse([b1 EXCEPT !.results = @ \cup {b1.id}], "Result", b1.id)

\* blockingRetry up to its loop: the work function is invoked with tx
blockingRetryBegin(b) ==
    LET b1 == nextId([b EXCEPT !.retryableState = retryableNothing])
        b2 == [b1 EXCEPT !.managedTransactions = @ \cup {b1.id}]
    IN [writeResponse(b2, "RetryableTry", b1.id) EXCEPT !.at = "work", !.tries = @ + 1]

\* one turn of blockingRetry's loop: b.process() handles a request, then the
\* switch on the retryable state returns from the work function or goes on
blockingRetryLoop(b, req) ==
    LET b1 == handleRequest(b, req) IN
    IF b1.retryableState = retryablePositive
    THEN [b1 EXCEPT !.at = "session", !.workErr = Ok]
    ELSE IF b1.retryableState = retryableNegative
    THEN [b1 EXCEPT !.at = "session",
                    !.workErr = IF b1.retryableErrorId # 0
                                THEN recordedError(b1, b1.retryableErrorId)
                                ELSE FrontendErr]
    ELSE b1

\* what ExecuteRead / ExecuteWrite may return: nil after a work function
\* that returned nil (and a commit that succeeded), the frontend's error
\* after a work function that returned it, an error of the driver any time
ExecuteResults(b) ==
    (IF b.workErr = Ok THEN {Ok} ELSE {})
    \cup (IF b.workErr = FrontendErr THEN {FrontendErr} ELSE {})
    \cup (IF b.id < MaxId THEN {DatabaseError, TransactionExecutionLimit} ELSE {})

\* handleTransactionFunc after ExecuteRead / ExecuteWrite has returned err
transactionFuncEnd(b, err) ==
    LET b1 == [b EXCEPT !.result = err, !.at = "idle"] IN
    IF err # Ok THEN writeError(b1, err) ELSE writeResponse(b1, "RetryableDone", 0)

BackendDoes(b) ==
    /\ Install([St EXCEPT !.backend = b])
    /\ UNCHANGED << rs, work, configBookmarks, pc, callConn, lastOp, ret >>

\* a SessionReadTransaction or SessionWriteTransaction request arrives:
\* handleTransactionFunc calls ExecuteRead or ExecuteWrite
BTransactionFunc ==
    /\ backend.at = "idle"
    /\ \E isRead \in BOOLEAN :
         BackendDoes([backend EXCEPT !.at = "session", !.out = << >>, !.tries = 0,
                         !.call = IF isRead THEN "ExecuteRead" ELSE "ExecuteWrite",
                         !.req = IF isRead THEN "SessionReadTransaction"
                                 ELSE "SessionWriteTransaction",
                         !.workErr = "none", !.result = "none"])

\* the session makes an attempt and invokes the work function; it does not
\* try again after the frontend's own error
BWorkInvoked ==
    /\ backend.at = "session" /\ backend.id < MaxId
    /\ backend.workErr # FrontendErr
    /\ BackendDoes(blockingRetryBegin(backend))

\* the frontend sends a request while the work function waits
BWorkRequest ==
    /\ backend.at = "work"
    /\ \E req \in WorkRequests(backend) : BackendDoes(blockingRetryLoop(backend, req))

\* ExecuteRead / ExecuteWrite returns
BExecuteReturns ==
    /\ backend.at = "session"
    /\ \E err \in ExecuteResults(backend) : BackendDoes(transactionFuncEnd(backend, err))

BackendNext == BTransactionFunc \/ BWorkInvoked \/ BWorkRequest \/ BExecuteReturns

\* ---------------------------------------------------------- initial state
\* newSessionWithContext(config, sessConfig, router, pool, logger)
NewSession ==
    /\ defaultMode \in AccessModes
    /\ configBookmarks \in ConfigBookmarks
    /\ bookmarks = cleanupBookmarks(configBookmarks)
    /\ databaseName \in ConfigDatabases
    /\ resolveHomeDb = (databaseName = "")
    /\ explicitTx = NULL
    /\ autocommitTx = NULL
    /\ borrowed = {}
    /\ connState = [c \in Conns |-> Ready]
    /\ connBookmark = [c \in Conns |-> ""]
    /\ attached = [c \in Conns |-> 0]
    /\ pc = [t \in Threads |-> "idle"]
    /\ callConn = [t \in Threads |-> NULL]
    /\ lastOp = [t \in Threads |-> "none"]
    /\ ret = [t \in Threads |-> [err |-> Ok, val |-> NoResult]]
    /\ rs = [t \in Threads |-> NewState]
    /\ work = [t \in Threads |-> NoWork]
    /\ lastEmitted = ""
    /\ sent = << >>
    /\ badReturn = FALSE
    /\ txHandles = {}
    /\ obs = NoObs
    /\ closing = NoClosing
    /\ stream = NoStreamRec

\* a session of a driver with a positive connection acquisition timeout
Init == NewSession /\ acquisitionTimeout = 1 /\ backend = newBackend

Step(t) ==
    \/ BeginTransaction(t)
    \/ BeginTransactionBody(t)
    \/ ExplicitTxRun(t)
    \/ Commit(t)
    \/ Rollback(t)
    \/ Run(t)
    \/ RunBody(t)
    \/ ResultConsume(t)
    \/ LastBookmarks(t)
    \/ ExecuteRead(t)
    \/ ExecuteWrite(t)
    \/ RetryLoop(t)
    \/ WorkReturns(t)
    \/ Close(t)
    \/ PoolCleanUp(t)
    \/ RouterCleanUp(t)
    \/ CloseReceivePool(t)
    \/ CloseReturn(t)
    \/ getServerInfo(t)

\* one caller at a time: the session is used by a single goroutine
Next == Step(1)

Spec == Init /\ [][Next]_vars

\* The session layer terminates its retry loop: the loop is run by the
\* calling goroutine, and the work function is expected to return
LiveSpec ==
    /\ Spec
    /\ WF_vars(RetryLoop(1)) /\ WF_vars(WorkReturns(1))

\* Close terminates: the goroutines Close starts are scheduled, the cleanups
\* they call return, and Close goes on when the channel it waits for holds
\* a value
CloseLiveSpec ==
    /\ Spec
    /\ WF_vars(PoolCleanUp(1)) /\ WF_vars(RouterCleanUp(1))
    /\ WF_vars(CloseReceivePool(1)) /\ WF_vars(CloseReturn(1))

\* two goroutines, each making one transaction-initiating call on the session
FirstCall(t) == lastOp[t] = "none"

ConcStep(t) ==
    \/ FirstCall(t) /\ BeginTransaction(t)
    \/ BeginTransactionBody(t)
    \/ FirstCall(t) /\ Run(t)
    \/ RunBody(t)

ConcNext == \E t \in Threads : ConcStep(t)

ConcSpec == Init /\ [][ConcNext]_vars

\* one connection, freshly connected, driven request by request
ConnNext ==
    \/ BoltRun(1)
    \/ BoltNext(1)
    \/ BoltTxBegin(1)
    \/ BoltRunTx(1)
    \/ BoltTxCommit(1)
    \/ BoltTxRollback(1)
    \/ BoltReset(1)

ConnSpec == Init /\ [][ConnNext]_vars

\* one connection and the stream of its last query
StreamStep ==
    \/ SRun(1)
    \/ SRunTx(1)
    \/ SNext(1)
    \/ SBuffer(1)
    \/ SConsume(1)
    \/ STxBegin(1)
    \/ STxCommit(1)
    \/ STxRollback(1)
    \/ SReset(1)

\* the session around the connection plays no part
\* sessions of drivers with a negative, a zero and a positive connection
\* acquisition timeout
AcquisitionTimeouts == {-1, 0, 1}

AcqInit ==
    /\ NewSession
    /\ acquisitionTimeout \in AcquisitionTimeouts
    /\ defaultMode = ReadMode /\ configBookmarks = << >>
    /\ backend = newBackend

AcqSpec == AcqInit /\ [][Next]_vars

StreamInit ==
    Init /\ defaultMode = ReadMode /\ configBookmarks = << >> /\ databaseName = ""

StreamSpec == StreamInit /\ [][StreamStep]_vars

\* a backend with one session, which the backend alone drives
BackendInit ==
    Init /\ defaultMode = ReadMode /\ configBookmarks = << >> /\ databaseName = ""

BackendSpec == BackendInit /\ [][BackendNext]_vars

\* ------------------------------------------------------------- properties

\* the calls that start a unit of work on the session
TxOps == {"BeginTransaction", "Run", "ExecuteRead", "ExecuteWrite"}

\* what s.LastBookmarks() would return in the current state
LastBookmarksValue ==
    IF autocommitTx # NULL THEN retrieveBookmarks(St, autocommitTx).bookmarks
    ELSE bookmarks

\* the borrowed connections that have a transaction or an auto-commit stream open
OpenWork == {c \in borrowed : connState[c] \in {Tx, StreamingTx, Streaming}}

\* C1: with an explicit transaction pending, a call of BeginTransaction, Run,
\* ExecuteRead or ExecuteWrite returns at once with a UsageError: nothing is
\* borrowed, nothing is sent, the work function is not invoked, and the pending
\* transaction reference and the bookmarks stay as they are.
C1_PendingTransactionRejects ==
    [][ (pc[1] = "idle" /\ explicitTx # NULL /\ lastOp'[1] \in TxOps)
        => /\ pc'[1] = "idle"
           /\ ret'[1].err = UsageError
           /\ borrowed' = borrowed
           /\ sent' = << >>
           /\ work'[1].calls = 0
           /\ explicitTx' = explicitTx
           /\ autocommitTx' = autocommitTx
           /\ bookmarks' = bookmarks ]_vars

C1_Witness ==
    /\ pc[1] = "idle"
    /\ explicitTx # NULL
    /\ borrowed = {explicitTx}
    /\ lastOp[1] = "ExecuteWrite"
    /\ ret[1].err = UsageError

\* C2 as stated: in no interleaving of two concurrent transaction-initiating
\* calls does the session hold two borrowed connections with open work.
C2_SinglePendingWork == Cardinality(OpenWork) <= 1

\* C2, amended: a transaction-initiating call that starts when the pending
\* explicit transaction has been recorded (BeginTransaction has returned)
\* observes a UsageError and borrows nothing, whichever goroutine makes it.
C2_CallAfterBeginRejected ==
    [][ \A t \in Threads :
          (pc[t] = "idle" /\ explicitTx # NULL /\ lastOp[t] = "none" /\ lastOp'[t] \in TxOps)
          => /\ pc'[t] = "idle"
             /\ ret'[t].err = UsageError
             /\ borrowed' = borrowed
             /\ explicitTx' = explicitTx ]_vars

C2_Witness ==
    \E t \in Threads, u \in Threads :
        /\ t # u
        /\ pc[t] = "idle" /\ lastOp[t] = "BeginTransaction" /\ ret[t].err = Ok
        /\ pc[u] = "idle" /\ lastOp[u] = "Run" /\ ret[u].err = UsageError
        /\ Cardinality(OpenWork) = 1

\* C3: no connection leaks. Nothing is handed back that is not borrowed (no
\* second Return, no Return after a failed Borrow); between calls the borrowed
\* connections are exactly those of the pending transactions, inside a work
\* function exactly the one of the attempt; and when Close has returned nothing
\* is borrowed.
C3_NoLeakedConnections ==
    /\ ~badReturn
    /\ pc[1] = "idle" => borrowed = {explicitTx, autocommitTx} \ {NULL}
    /\ pc[1] = "work" => borrowed = {callConn[1]}
    /\ pc[1] \in {"begin", "run", "retry"} => borrowed = {}
    /\ (pc[1] = "idle" /\ lastOp[1] = "Close") => borrowed = {}

C3_Witness ==
    /\ pc[1] = "idle"
    /\ lastOp[1] = "Close"
    /\ ret[1].err = DatabaseError
    /\ lastEmitted # ""
    /\ borrowed = {}

\* C4: once the server has emitted a bookmark in a commit or in the final
\* summary of an auto-commit query, LastBookmarks is the one-element set of the
\* last bookmark emitted.
C4_LastBookmarkReplaces ==
    lastEmitted # "" => LastBookmarksValue = << lastEmitted >>

C4_Witness ==
    /\ pc[1] = "idle"
    /\ lastOp[1] = "Commit"
    /\ ret[1].err = Ok
    /\ configBookmarks # << >>
    /\ lastEmitted = "b2"
    /\ bookmarks = << "b2" >>

C6_InitialBookmarksAfterRollback ==
    (pc[1] = "idle" /\ lastOp[1] = "Rollback" /\ ret[1].err = Ok)
    => LastBookmarksValue = cleanupBookmarks(configBookmarks)

\* C7: every BEGIN and every auto-commit RUN carries the bookmark of the last
\* command that got one from the server (the initial bookmarks when there is
\* none yet), also when that command is an auto-commit query whose result was
\* still pending when the next command was called.
C7_CausalChaining ==
    sent # << >>
    => sent[1] = IF lastEmitted # "" THEN << lastEmitted >>
                 ELSE cleanupBookmarks(configBookmarks)

C7_Witness ==
    /\ pc[1] = "idle"
    /\ lastOp[1] = "Run"
    /\ autocommitTx # NULL
    /\ sent = << << "b1" >> >>

\* an attempt of the managed transaction has failed and the loop decides
AttemptFailed == pc[1] = "retry" /\ rs[1].LastErr # Ok

C10_ErrorAfterRetriesIsWrapped ==
    [][ (pc[1] = "retry" /\ pc'[1] = "idle" /\ work[1].attempts >= 2)
        => ret'[1].err = TransactionExecutionLimit ]_vars

\* C11: in a managed transaction a COMMIT is sent only in an attempt whose work
\* function returned without error; ExecuteRead/ExecuteWrite returns without
\* error only from a step whose COMMIT succeeded, with the value of the last
\* invocation of work and with the bookmark of that COMMIT already in the
\* session's bookmarks.
C11_CommitOnlyAfterWork ==
    [][ (pc[1] \in {"retry", "work"})
        => /\ obs'.commit # "none" => obs'.work = Ok
           /\ obs'.work \notin {"none", Ok} => obs'.commit = "none"
           /\ (pc'[1] = "idle" /\ ret'[1].err = Ok)
              => /\ obs'.commit = "ok"
                 /\ ret'[1].val = << work[1].calls >>
                 /\ lastEmitted' # lastEmitted => bookmarks' = << lastEmitted' >> ]_vars

C11_Witness ==
    /\ pc[1] = "idle"
    /\ lastOp[1] = "ExecuteRead"
    /\ ret[1].err = Ok
    /\ ret[1].val = << 2 >>
    /\ obs.commit = "ok"
    /\ obs.work = Ok
    /\ bookmarks = << "b2" >>

C17_GetServerInfoPreflight ==
    [][ (pc[1] = "idle" /\ explicitTx # NULL /\ lastOp'[1] = "getServerInfo")
        => /\ ret'[1].err = UsageError
           /\ obs'.returned = {} ]_vars

\* C17 (amended): getServerInfo has no pending-transaction guard. Whatever is
\* pending, it never returns a usage error, leaves the pending transactions
\* and the bookmarks as they are, and when the pool has a connection it
\* borrows one that is not the transaction's, returns it before it returns and
\* succeeds.
C17_GetServerInfoHasNoPreflight ==
    [][ (pc[1] = "idle" /\ lastOp'[1] = "getServerInfo")
        => /\ pc'[1] = "idle"
           /\ ret'[1].err # UsageError
           /\ explicitTx' = explicitTx
           /\ autocommitTx' = autocommitTx
           /\ bookmarks' = bookmarks
           /\ borrowed' = borrowed
           /\ ret'[1].err = Ok
              => /\ ret'[1].val[1] \notin borrowed
                 /\ obs'.returned = {Ready} ]_vars

C17_Witness ==
    /\ pc[1] = "idle"
    /\ lastOp[1] = "getServerInfo"
    /\ explicitTx # NULL
    /\ explicitTx \in borrowed
    /\ ret[1].err = Ok
    /\ ret[1].val # << explicitTx >>
    /\ obs.returned = {Ready}

\* C15 (as documented): once Close has returned the session is unusable: a
\* call of BeginTransaction, Run, ExecuteRead or ExecuteWrite made next is
\* turned down at once, with an error, without going on to acquire a
\* connection and without a transaction becoming pending.
C15_ClosedSessionStartsNoWork ==
    [][ (pc[1] = "idle" /\ lastOp[1] = "Close" /\ lastOp'[1] \in TxOps)
        => /\ pc'[1] = "idle"
           /\ ret'[1].err # Ok
           /\ borrowed' = borrowed
           /\ explicitTx' = NULL
           /\ autocommitTx' = NULL ]_vars

\* C14: Close leaves no transaction pending, starts pool.CleanUp and
\* router.CleanUp together before it waits for either, also when closing the
\* transaction returned an error; it returns only when each has run exactly
\* once, and what it returns is one of the three errors, nil only when all
\* three are nil; and a Close that has started always returns.
C14_CloseSafety ==
    /\ (pc[1] = "idle" /\ pc'[1] = "close")
       => /\ explicitTx' = NULL
          /\ autocommitTx' = NULL
          /\ closing'.todo = {"pool", "router"}
          /\ closing'.finished = << >>
    /\ (pc[1] = "close" /\ pc'[1] = "idle")
       => /\ closing'.todo = {}
          /\ closing'.finished \in {<<"pool", "router">>, <<"router", "pool">>}
          /\ closing'.poolErrChan = << >>
          /\ closing'.routerErrChan = << >>
          /\ {closing'.poolErr, closing'.routerErr} \subseteq CleanUpResults
          /\ ret'[1].err \in {closing'.txErr, closing'.poolErr, closing'.routerErr}
          /\ ret'[1].err = Ok
             <=> (closing'.txErr = Ok /\ closing'.poolErr = Ok /\ closing'.routerErr = Ok)

C14_CloseCleansUpAndReturns ==
    /\ [][C14_CloseSafety]_vars
    /\ (pc[1] = "close") ~> (pc[1] = "idle" /\ lastOp[1] = "Close")

C14_Witness ==
    /\ pc[1] = "idle"
    /\ lastOp[1] = "Close"
    /\ closing.txErr = DatabaseError
    /\ closing.finished = <<"router", "pool">>
    /\ closing.poolErr = Ok
    /\ closing.routerErr = ConnectivityError
    /\ ret[1].err = DatabaseError

\* the requests that ask the connection for work
ConnWork == {"conn.Run", "conn.RunTx", "conn.TxBegin", "conn.TxCommit", "conn.TxRollback"}

\* C18: a Ready connection has no attached stream, a Streaming or StreamingTx
\* connection has exactly one, and no connection ever has more than one.
C18_AttachedStreamMatchesState ==
    \A c \in Conns :
        /\ connState[c] = Ready => attached[c] = 0
        /\ connState[c] \in {Streaming, StreamingTx} => attached[c] = 1
        /\ attached[c] <= 1

C18_Witness ==
    /\ lastOp[1] = "conn.RunTx"
    /\ ret[1].err = Ok
    /\ connState[1] = StreamingTx
    /\ attached[1] = 1

\* C19: what a request that succeeds does to the connection: Run takes Ready
\* to Streaming and the stream's summary takes it back to Ready; TxBegin takes
\* Ready to Tx; RunTx takes Tx to StreamingTx and the summary takes it back
\* to Tx; TxCommit and TxRollback take the transaction's state to Ready, the
\* commit storing the bookmark of its SUCCESS and the rollback leaving the
\* bookmark alone.
C19_SuccessTransitions ==
    [][ ret'[1].err = Ok =>
        /\ lastOp'[1] = "conn.Run"
           => \/ (connState[1] = Ready /\ connState'[1] = Streaming)
              \/ (connState[1] = Tx /\ connState'[1] = StreamingTx
                  /\ connBookmark' = connBookmark)
        /\ lastOp'[1] = "conn.Next"
           => \/ (connState[1] = Streaming /\ connState'[1] = Ready)
              \/ (connState[1] = StreamingTx /\ connState'[1] = Tx
                  /\ connBookmark' = connBookmark)
        /\ lastOp'[1] = "conn.TxBegin"
           => (connState[1] = Ready /\ connState'[1] = Tx /\ connBookmark' = connBookmark)
        /\ lastOp'[1] = "conn.RunTx"
           => (connState[1] = Tx /\ connState'[1] = StreamingTx
               /\ connBookmark' = connBookmark)
        /\ lastOp'[1] = "conn.TxCommit"
           => /\ connState[1] \in {Tx, StreamingTx}
              /\ connState'[1] = Ready
              /\ connBookmark'[1] = IF obs'.bookmark # "" THEN obs'.bookmark
                                    ELSE connBookmark[1]
        /\ lastOp'[1] = "conn.TxRollback"
           => /\ connState[1] \in {Tx, StreamingTx}
              /\ connState'[1] = Ready
              /\ connBookmark' = connBookmark ]_vars

C19_Witness ==
    /\ lastOp[1] = "conn.TxCommit"
    /\ ret[1].err = Ok
    /\ connState[1] = Ready
    /\ obs.bookmark = "b2"
    /\ connBookmark[1] = "b2"
    /\ obs.msgs = << "DISCARD", "COMMIT" >>

\* C20: a Failed connection turns down Run, RunTx, TxBegin, TxCommit and
\* TxRollback: the request returns the failure that made the connection
\* Failed, sends no message and leaves the connection Failed; a Reset that
\* succeeds sends RESET and makes the connection Ready.
C20_FailedRefusesWork ==
    [][ connState[1] = Failed =>
        /\ lastOp'[1] \in ConnWork
           => /\ ret'[1].err = DatabaseError
              /\ obs'.msgs = << >>
              /\ connState'[1] = Failed
        /\ (lastOp'[1] = "conn.Reset" /\ ret'[1].err = Ok)
           => /\ obs'.msgs = << "RESET" >>
              /\ connState'[1] = Ready
              /\ attached'[1] = 0 ]_vars

C20_Witness ==
    /\ lastOp[1] = "conn.TxCommit"
    /\ ret[1].err = DatabaseError
    /\ connState[1] = Failed
    /\ obs.msgs = << >>
    /\ obs.commit = "none"

C30_LastBookmarksReadsPendingBookmark ==
    [][ (pc[1] = "idle" /\ lastOp'[1] = "LastBookmarks" /\ autocommitTx # NULL)
        => /\ bookmarks' = IF connBookmark[autocommitTx] # ""
                           THEN << connBookmark[autocommitTx] >> ELSE bookmarks
           /\ ret'[1] = [err |-> Ok, val |-> << "bookmarks", bookmarks' >>]
           /\ autocommitTx' = autocommitTx
           /\ explicitTx' = explicitTx
           /\ borrowed' = borrowed
           /\ connState' = connState
           /\ connBookmark' = connBookmark
           /\ attached' = attached
           /\ obs' = NoObs
           /\ sent' = << >> ]_vars

C30_Witness ==
    /\ pc[1] = "idle"
    /\ lastOp[1] = "LastBookmarks"
    /\ autocommitTx # NULL
    /\ autocommitTx \in borrowed
    /\ connBookmark[autocommitTx] = "b2"
    /\ configBookmarks # << >>
    /\ ret[1].val = << "bookmarks", << "b2" >> >>

\* C24: Reset on a Ready connection sends nothing and leaves it Ready; on a
\* Streaming, StreamingTx, Tx or Failed connection it sends one RESET, skips
\* the IGNORED replies up to the SUCCESS of the RESET and leaves the
\* connection Ready with no stream attached; if the socket fails before that
\* SUCCESS the connection is Dead.
C24_ResetDrainsToReady ==
    [][ lastOp'[1] = "conn.Reset" =>
          /\ connState[1] = Ready =>
                connState'[1] = Ready /\ obs'.msgs = << >> /\ ret'[1].err = Ok
          /\ connState[1] \in {Streaming, StreamingTx, Tx, Failed} =>
                /\ obs'.msgs = << "RESET" >>
                /\ attached'[1] = 0
                /\ (\E i \in 1..Len(obs'.replies) :
                       /\ obs'.replies[i] = "SUCCESS"
                       /\ \A j \in 1..(i - 1) : obs'.replies[j] = "IGNORED")
                   => connState'[1] = Ready /\ ret'[1].err = Ok
                /\ (\A i \in 1..Len(obs'.replies) : obs'.replies[i] # "SUCCESS")
                   => connState'[1] = Dead /\ ret'[1].err = ConnectivityError ]_vars

\* a Reset on a failed connection that skipped two IGNORED replies
C24_Witness ==
    /\ lastOp[1] = "conn.Reset"
    /\ obs.msgs = << "RESET" >>
    /\ obs.replies = << "IGNORED", "IGNORED", "SUCCESS" >>
    /\ connState[1] = Ready
    /\ attached[1] = 0

\* the requests a connection state does not allow
IllegalIn(op, st) ==
    \/ op = "conn.Run" /\ st \notin {Ready, Tx}
    \/ op = "conn.TxBegin" /\ st # Ready
    \/ op = "conn.RunTx" /\ st # Tx
    \/ op \in {"conn.TxCommit", "conn.TxRollback"} /\ st \notin {Tx, StreamingTx}

\* C28 (as stated): a request that the connection's state does not allow
\* yields a UsageError and leaves the connection state as it was.
C28_IllegalOpIsUsageError ==
    [][ IllegalIn(lastOp'[1], connState[1]) =>
          /\ connState'[1] = connState[1] /\ connBookmark'[1] = connBookmark[1]
          /\ attached'[1] = attached[1] /\ obs'.msgs = << >>
          /\ ret'[1].err = UsageError ]_vars

\* C28 (amended): a request that the connection's state does not allow
\* leaves the connection as it was and writes nothing; on a Failed or Dead
\* connection it returns the failure that put the connection there, in
\* every other state a UsageError.
C28_IllegalOpLeavesStateAndReportsCause ==
    [][ IllegalIn(lastOp'[1], connState[1]) =>
          /\ connState'[1] = connState[1] /\ connBookmark'[1] = connBookmark[1]
          /\ attached'[1] = attached[1] /\ obs'.msgs = << >>
          /\ connState[1] = Failed => ret'[1].err = DatabaseError
          /\ connState[1] = Dead => ret'[1].err \in {ConnectivityError, DatabaseError}
          /\ connState[1] \notin {Failed, Dead} => ret'[1].err = UsageError ]_vars

\* TxCommit on the connection whose RunTx has just failed
C28_Witness ==
    /\ lastOp[1] = "conn.TxCommit"
    /\ connState[1] = Failed
    /\ ret[1].err = DatabaseError
    /\ obs.msgs = << >>

\* C25: a FAILURE with code Status.Security.AuthorizationExpired leaves the
\* connection Dead; a FAILURE with code Neo.ClientError.Security.TokenExpired
\* or with any other code, the answer to BEGIN included, leaves it Failed;
\* the request that read the FAILURE returns the server's error.
C25_FailureClassification ==
    [][ (lastOp'[1] # "conn.Reset" /\ obs'.replies # << >>) =>
          LET reply == obs'.replies[Len(obs'.replies)] IN
          /\ reply = "authorizationExpired"
                => connState'[1] = Dead /\ ret'[1].err = DatabaseError
          /\ reply \in {"tokenExpired", "failure"}
                => connState'[1] = Failed /\ ret'[1].err = DatabaseError ]_vars

\* a Run answered by the FAILURE of an expired authorization
C25_Witness ==
    /\ lastOp[1] = "conn.Run"
    /\ obs.msgs = << "RUN", "PULL" >>
    /\ obs.replies = << "authorizationExpired" >>
    /\ connState[1] = Dead
    /\ ret[1].err = DatabaseError

\* C21: once the connection is Dead, no request (Run, RunTx, TxBegin,
\* TxCommit, TxRollback, Reset, Next, Buffer, Consume) changes its state,
\* and none writes to the socket or reads from it.
C21_DeadIsTerminal ==
    [][ connState[1] = Dead =>
          /\ connState'[1] = Dead
          /\ attached'[1] = 0
          /\ connBookmark'[1] = connBookmark[1]
          /\ obs'.msgs = << >>
          /\ obs'.replies = << >> ]_vars

\* a Reset that found the connection Dead: it wrote nothing and left it Dead
C21_Witness ==
    /\ lastOp[1] = "conn.Reset"
    /\ connState[1] = Dead
    /\ obs.msgs = << >>
    /\ stream.open

\* C22: on a Dead connection Next hands out the records buffered in the
\* stream, oldest first and each in the place it arrived in, and then the
\* summary of a stream that had ended; a Next that has to read and finds the
\* socket closed returns the connectivity error and the connection is Dead,
\* and so does every later call on that stream.
C22_BufferedRecordsSurviveDeath ==
    [][ (lastOp'[1] = "conn.Next" /\ stream.open) =>
          /\ (connState[1] = Dead /\ stream.fifo # << >>)
                => /\ ret'[1] = [err |-> Ok, val |-> << "record", Head(stream.fifo) >>]
                   /\ Head(stream.fifo) = Len(stream.delivered) + 1
                   /\ stream'.fifo = Tail(stream.fifo)
          /\ (connState[1] = Dead /\ stream.fifo = << >> /\ stream.end = "summary")
                => ret'[1] = [err |-> Ok, val |-> << "summary", stream.bm >>]
          /\ (connState[1] = Dead /\ stream.fifo = << >> /\ stream.end = "error")
                => ret'[1].err = stream.err
          /\ (\E i \in 1..Len(obs'.replies) : obs'.replies[i] = "dead")
                => /\ connState'[1] = Dead
                   /\ ret'[1].err = ConnectivityError
                   /\ stream'.err = ConnectivityError ]_vars

\* the third and last buffered record handed out by a Next that read
\* nothing, the connection being Dead
C22_Witness ==
    /\ lastOp[1] = "conn.Next"
    /\ connState[1] = Dead
    /\ obs.replies = << >>
    /\ ret[1].val = << "record", 3 >>
    /\ stream.delivered = << 1, 2, 3 >>
    /\ stream.end = "summary"

\* C23: a TxCommit that finds the stream of the transaction still streaming,
\* with records left on the server, and that succeeds has sent one DISCARD
\* and then COMMIT, no PULL and no second DISCARD, also when the reply to
\* the DISCARD carried has_more; the connection is Ready and holds the
\* bookmark of the COMMIT; no record of a discarded stream is handed out.
C23_CommitWhileStreaming ==
    [][ /\ (/\ lastOp'[1] = "conn.TxCommit" /\ ret'[1].err = Ok
            /\ connState[1] = StreamingTx /\ stream.server > 0)
           => /\ obs'.msgs = << "DISCARD", "COMMIT" >>
              /\ stream'.discards = 1
              /\ stream'.pulls = stream.pulls
              /\ stream'.end = "summary"
              /\ connState'[1] = Ready
              /\ attached'[1] = 0
              /\ connBookmark'[1] = IF obs'.bookmark # "" THEN obs'.bookmark
                                    ELSE connBookmark[1]
              /\ stream'.fifo = << >>
              /\ stream'.delivered = stream.delivered
        /\ (stream.discards > 0 /\ stream'.discards > 0)
           => /\ stream'.delivered = stream.delivered
              /\ stream'.fifo = << >>
              /\ stream'.discards = stream.discards
              /\ stream'.pulls = stream.pulls ]_vars

\* the commit of the test: one record pending, has_more on the batch and on
\* the reply to DISCARD, bookmark taken from the COMMIT
C23_Witness ==
    /\ lastOp[1] = "conn.TxCommit"
    /\ ret[1].err = Ok
    /\ obs.msgs = << "DISCARD", "COMMIT" >>
    /\ obs.replies = << "RECORD", "HAS_MORE", "HAS_MORE" >>
    /\ connState[1] = Ready
    /\ connBookmark[1] = "b2"
    /\ stream.fetch = 1
    /\ stream.delivered = << >>

\* the least number of batches of k records that hold n records
Ceil(n, k) == (n + k - 1) \div k

\* the stream has ended with its summary and all its records were retrieved
RetrievedCompletely ==
    /\ stream.open /\ stream.end = "summary" /\ stream.discards = 0
    /\ Len(stream.delivered) + Len(stream.fifo) = stream.total

\* C26 (as stated): a query run with fetch size k > 0 whose N records were
\* retrieved completely had exactly ceil(N/k) PULLs dispatched, each of size
\* k; with fetch size -1 exactly one PULL(-1).
C26_CeilPullsOfFetchSize ==
    RetrievedCompletely =>
        IF stream.fetch > 0
        THEN stream.pulls = [i \in 1..Ceil(stream.total, stream.fetch) |-> stream.fetch]
        ELSE stream.pulls = << -1 >>

\* C26 (amended): RUN is pipelined with the first PULL(k); every later PULL
\* follows a batch summary with has_more and is PULL(k) when Next asks for
\* the batch and PULL(-1) when Buffer does. A stream of N records retrieved
\* completely with PULL(k) alone has had ceil(N/k) of them, and one when
\* N = 0; with fetch size -1 it has had exactly one PULL(-1).
C26_PullsFollowHasMore ==
    [][ /\ (stream.open /\ stream.end = "none" /\ stream'.pulls # stream.pulls)
           => /\ lastOp'[1] \in {"conn.Next", "conn.Buffer"}
              /\ stream.server > 0
              /\ \E i \in 1..Len(obs'.replies) : obs'.replies[i] = "HAS_MORE"
              /\ stream'.pulls = Append(stream.pulls, IF lastOp'[1] = "conn.Next"
                                                      THEN stream.fetch ELSE -1)
        /\ (lastOp'[1] \in {"conn.Run", "conn.RunTx"} /\ ret'[1].err = Ok)
           => stream'.pulls = << stream'.fetch >> /\ obs'.msgs = << "RUN", "PULL" >>
        /\ RetrievedCompletely' =>
              LET k == stream'.fetch
                  n == stream'.total
                  ps == stream'.pulls IN
              /\ (k > 0 /\ \A i \in 1..Len(ps) : ps[i] = k)
                    => Len(ps) = IF n = 0 THEN 1 ELSE Ceil(n, k)
              /\ (k > 0 /\ \E i \in 1..Len(ps) : ps[i] # k)
                    => \E m \in 1..Len(ps) :
                         /\ ps = [i \in 1..(m + 1) |-> IF i <= m THEN k ELSE -1]
                         /\ m * k < n
              /\ k = -1 => ps = << -1 >> ]_vars

\* three records with fetch size 2, read by Next: PULL(2), PULL(2)
C26_Witness ==
    /\ lastOp[1] = "conn.Next"
    /\ stream.fetch = 2
    /\ stream.total = 3
    /\ stream.end = "summary"
    /\ stream.delivered = << 1, 2, 3 >>
    /\ stream.pulls = << 2, 2 >>
    /\ ret[1].val = << "summary", "b1" >>

C31_AtMostOnePendingReference ==
    /\ [](~(explicitTx # NULL /\ autocommitTx # NULL))
    /\ [][ LET call == IF pc[1] = "idle" THEN lastOp'[1] ELSE "none"
               initiating == {"BeginTransaction", "Run", "ExecuteRead", "ExecuteWrite"}
           IN
           /\ (explicitTx # NULL /\ explicitTx' = NULL)
                <=> (explicitTx # NULL /\ call \in {"Commit", "Rollback", "Close"})
           /\ (autocommitTx # NULL /\ autocommitTx' = NULL)
                <=> /\ autocommitTx # NULL
                    /\ \/ call = "Close"
                       \/ call \in initiating /\ explicitTx = NULL
           /\ ( /\ call \in initiating
                /\ explicitTx = NULL
                /\ validateTransactionConfig([Timeout |-> obs'.timeout]) = Ok )
                => /\ pc'[1] \in {"begin", "run", "retry"}
                   /\ explicitTx' = NULL /\ autocommitTx' = NULL
         ]_vars

\* BeginTransaction has just finalized the pending auto-commit transaction
\* (its connection went back to the pool in this step) and was accepted; at
\* its next step the explicit transaction becomes the only reference
C31_Witness ==
    /\ lastOp[1] = "BeginTransaction" /\ pc[1] = "begin"
    /\ obs.returned # {}
    /\ explicitTx = NULL /\ autocommitTx = NULL

\* ------------------------------------------------------------------- C32
\* C32: the home database is resolved at most once per session. A session
\* that is unresolved was configured without a database name; a step calls
\* router.GetNameOfDefaultDatabase at most once, only while the session is
\* unresolved and then before anything else it asks the router; when the
\* call returns a name the session caches it and is marked resolved; once
\* resolved the session stays resolved, keeps its database name and never
\* calls GetNameOfDefaultDatabase again; and every Readers/Writers lookup is
\* made with the session's (cached) database name.
C32_HomeDatabaseResolvedOnce ==
    /\ [](resolveHomeDb => databaseName = "")
    /\ [][ LET calls == {i \in DOMAIN obs'.router :
                            obs'.router[i][1] = "GetNameOfDefaultDatabase"}
           IN
           /\ calls \subseteq {1}
           /\ calls # {} => resolveHomeDb
           /\ (resolveHomeDb /\ obs'.router # << >>) => calls = {1}
           /\ \A i \in calls :
                obs'.router[i][3] # "error"
                  => databaseName' = obs'.router[i][3] /\ ~resolveHomeDb'
           /\ ~resolveHomeDb
                => calls = {} /\ ~resolveHomeDb' /\ databaseName' = databaseName
           /\ \A i \in DOMAIN obs'.router \ calls : obs'.router[i][2] = databaseName'
         ]_vars

\* a session configured without a database name has resolved its home
\* database earlier and now looks servers up under the cached name, without
\* asking for the home database again
C32_Witness ==
    /\ ~resolveHomeDb /\ databaseName = HomeDatabase
    /\ Len(obs.router) = 1
    /\ obs.router[1][1] \in {"Readers", "Writers"}
    /\ obs.router[1][2] = HomeDatabase

\* ------------------------------------------------------------------- C33
\* C33: when router.GetNameOfDefaultDatabase fails, the step asks the router
\* for nothing else and calls no pool.Borrow, the set of borrowed connections,
\* the session's database name and its unresolved mark are unchanged, and
\* the operation fails with the error (an attempt of a managed transaction
\* fails without calling the work function); and every acquisition made by
\* an unresolved session starts with the resolution, so the next operation
\* attempts it again.
C33_FailedResolutionLeavesSessionUnresolved ==
    [][ /\ ( /\ obs'.router # << >>
             /\ obs'.router[1] = << "GetNameOfDefaultDatabase", "", "error" >> )
           => /\ Len(obs'.router) = 1
              /\ obs'.borrow = << >> /\ borrowed' = borrowed
              /\ obs'.msgs = << >>
              /\ databaseName' = databaseName /\ resolveHomeDb'
              /\ IF pc[1] = "retry"
                 THEN /\ pc'[1] = "retry"
                      /\ work'[1].calls = work[1].calls
                      /\ rs'[1].LastErr = ConnectivityError
                 ELSE pc'[1] = "idle" /\ ret'[1].err = ConnectivityError
        /\ (resolveHomeDb /\ (obs'.router # << >> \/ obs'.borrow # << >>))
           => /\ obs'.router # << >>
              /\ obs'.router[1][1] = "GetNameOfDefaultDatabase"
      ]_vars

\* Run has failed because the home database could not be resolved; the
\* session is still unresolved and holds no connection
C33_Witness ==
    /\ lastOp[1] = "Run" /\ pc[1] = "idle" /\ ret[1].err = ConnectivityError
    /\ obs.router = << << "GetNameOfDefaultDatabase", "", "error" >> >>
    /\ resolveHomeDb /\ databaseName = "" /\ borrowed = {}

\* ------------------------------------------------------------------- C34
\* C34 as stated: with ConnectionAcquisitionTimeout = 0 every borrow of a
\* connection acquisition is made without a deadline and with the pool asked
\* to wait for a connection.
C34_ZeroTimeoutWaitsUnbounded ==
    [][ ( /\ acquisitionTimeout = 0
          /\ lastOp'[1] \in {"BeginTransaction", "Run", "ExecuteRead", "ExecuteWrite"} )
        => \A i \in DOMAIN obs'.borrow :
             ~obs'.borrow[i].deadline /\ obs'.borrow[i].wait
      ]_vars

\* C34 amended: a deadline is attached to the borrow exactly when
\* ConnectionAcquisitionTimeout is positive and the pool is asked to wait
\* exactly when it is not zero. With timeout 0 the borrow has no deadline and
\* the pool is asked not to wait; the borrow without deadline that waits is
\* the one of a negative timeout.
C34_DeadlineIfPositiveWaitIfNonZero ==
    [][ lastOp'[1] \in {"BeginTransaction", "Run", "ExecuteRead", "ExecuteWrite"}
        => \A i \in DOMAIN obs'.borrow :
             /\ obs'.borrow[i].deadline = (acquisitionTimeout > 0)
             /\ obs'.borrow[i].wait = (acquisitionTimeout # 0)
             /\ acquisitionTimeout = 0
                  => ~obs'.borrow[i].deadline /\ ~obs'.borrow[i].wait
             /\ acquisitionTimeout < 0
                  => ~obs'.borrow[i].deadline /\ obs'.borrow[i].wait
      ]_vars

\* a session of a driver with timeout 0 has just borrowed a connection for
\* Run: no deadline, and the pool was asked not to wait
C34_Witness ==
    /\ acquisitionTimeout = 0
    /\ lastOp[1] = "Run" /\ autocommitTx # NULL
    /\ obs.borrow = << [deadline |-> FALSE, wait |-> FALSE] >>

\* ------------------------------------------------------------------- C35
\* C35: the servers of a borrow are the router's readers when the operation's
\* mode is Read and its writers when it is Write. ExecuteRead asks for
\* readers and ExecuteWrite for writers whatever the session's access mode
\* is; Run and BeginTransaction go by the session's access mode; and the
\* BEGIN or RUN that follows carries the mode the servers were selected by.
C35_ServersAndRequestFollowMode ==
    [][ LET op == lastOp'[1]
            mode == IF op = "ExecuteRead" THEN ReadMode
                    ELSE IF op = "ExecuteWrite" THEN WriteMode
                    ELSE defaultMode
            lookups == {i \in DOMAIN obs'.router :
                           obs'.router[i][1] \in {"Readers", "Writers"}}
        IN op \in {"ExecuteRead", "ExecuteWrite", "Run", "BeginTransaction"}
           => /\ \A i \in lookups :
                   obs'.router[i][1] = IF mode = ReadMode THEN "Readers" ELSE "Writers"
              /\ obs'.borrow # << >> => lookups # {}
              /\ (obs'.msgs # << >> /\ Head(obs'.msgs) \in {"BEGIN", "RUN"})
                   => obs'.mode = << mode >> /\ lookups # {}
      ]_vars

\* ExecuteRead on a session configured for Write has asked for readers,
\* begun its transaction with mode Read and called the work function
C35_Witness ==
    /\ defaultMode = WriteMode
    /\ lastOp[1] = "ExecuteRead" /\ pc[1] = "work"
    /\ \E i \in DOMAIN obs.router : obs.router[i][1] = "Readers"
    /\ obs.msgs = << "BEGIN" >> /\ obs.mode = << ReadMode >>

\* ------------------------------------------------------------------- C36
\* C36: Buffer and Consume called with a stream handle the connection does
\* not know return a UsageError (Consume no summary), write no message and
\* read none, and leave the connection's state, bookmark, attached stream and
\* the streams it has unchanged.
C36_UnknownHandleIsUsageError ==
    [][ ( /\ lastOp'[1] \in {"conn.Buffer", "conn.Consume"}
          /\ obs'.handle = "unknown" )
        => /\ ret'[1].err = UsageError /\ ret'[1].val = NoResult
           /\ obs'.msgs = << >> /\ obs'.replies = << >>
           /\ connState' = connState /\ connBookmark' = connBookmark
           /\ attached' = attached /\ stream' = stream
      ]_vars

\* Consume was called with an unknown handle while the connection streams
\* the result of a query: the call was refused and the stream is still
\* attached to the streaming connection
C36_Witness ==
    /\ lastOp[1] = "conn.Consume" /\ obs.handle = "unknown"
    /\ ret[1].err = UsageError
    /\ connState[1] = Streaming /\ attached[1] = 1
    /\ stream.open /\ stream.end = "none"

\* ------------------------------------------------------------------- C37
\* C37: Buffer and Consume are idempotent on a finished stream (one that has
\* its summary). Buffer again returns no error, writes and reads nothing and
\* leaves the stream (buffered records, summary) and the connection as they
\* are; Consume again returns the stream's summary without error, writes and
\* reads nothing and leaves the connection as it is; every Consume that
\* returns a summary leaves no buffered record, and every Next on a finished
\* stream without buffered records returns the summary, no record, and
\* changes nothing.
C37_BufferConsumeIdempotentWhenFinished ==
    [][ LET op == lastOp'[1]
            finished == stream.open /\ stream.end = "summary"
            quiet == /\ obs'.msgs = << >> /\ obs'.replies = << >>
                     /\ connState' = connState /\ connBookmark' = connBookmark
                     /\ attached' = attached
        IN
        /\ (op = "conn.Buffer" /\ obs'.handle = "known" /\ finished)
             => ret'[1].err = Ok /\ stream' = stream /\ quiet
        /\ (op = "conn.Consume" /\ obs'.handle = "known" /\ finished)
             => /\ ret'[1] = [err |-> Ok, val |-> << "summary", stream.bm >>]
                /\ stream' = [stream EXCEPT !.fifo = << >>]
                /\ quiet
        /\ (op = "conn.Consume" /\ obs'.handle = "known" /\ ret'[1].err = Ok)
             => /\ ret'[1].val = << "summary", stream'.bm >>
                /\ stream'.end = "summary" /\ stream'.fifo = << >>
        /\ (op = "conn.Next" /\ finished /\ stream.fifo = << >>)
             => /\ ret'[1] = [err |-> Ok, val |-> << "summary", stream.bm >>]
                /\ stream' = stream /\ quiet
      ]_vars

\* Consume was called on a stream that already had its summary (nothing was
\* read in this call) and returned that summary with its bookmark
C37_Witness ==
    /\ lastOp[1] = "conn.Consume" /\ obs.handle = "known"
    /\ obs.replies = << >> /\ obs.msgs = << >>
    /\ stream.end = "summary" /\ stream.total > 0 /\ stream.fifo = << >>
    /\ ret[1] = [err |-> Ok, val |-> << "summary", "b1" >>]

\* ------------------------------------------------------------------- C38
\* C38 as stated: the error that terminated a stream is returned by exactly
\* one Next/Consume call; a call made after the call that returned it does
\* not return it again.
C38_StickyErrorReturnedOnce ==
    [][ LET reads == {"conn.Next", "conn.Consume"} IN
        ( /\ stream.open /\ stream.end = "error" /\ stream.fifo = << >>
          /\ lastOp[1] \in reads /\ obs.handle # "unknown"
          /\ ret[1].err = stream.err
          /\ lastOp'[1] \in reads /\ obs'.handle # "unknown" )
        => ret'[1].err = Ok
      ]_vars

\* C38 amended: the error that terminated a stream stays with the stream.
\* Every Consume, and every Next made when no buffered record is left, on a
\* stream that has or gets its error returns that error, with no record and
\* no summary; and Next, Buffer and Consume leave the error of the stream in
\* place, so the next call returns it again.
C38_StickyErrorReturnedEveryTime ==
    [][ LET op == lastOp'[1]
            asked == \/ op = "conn.Consume" /\ obs'.handle = "known"
                     \/ op = "conn.Next" /\ stream.open /\ stream.fifo = << >>
        IN
        /\ (asked /\ stream'.end = "error")
             => ret'[1] = [err |-> stream'.err, val |-> NoResult]
        /\ ( /\ op \in {"conn.Next", "conn.Buffer", "conn.Consume"}
             /\ stream.open /\ stream.end = "error" )
             => /\ stream'.end = "error" /\ stream'.err = stream.err
                /\ obs'.msgs = << >> /\ obs'.replies = << >>
      ]_vars

\* Next has returned the error of a stream that had failed in an earlier
\* call: nothing was read in this one, and no record of the stream was ever
\* handed out
C38_Witness ==
    /\ lastOp[1] = "conn.Next" /\ obs.replies = << >>
    /\ stream.open /\ stream.end = "error" /\ stream.err = DatabaseError
    /\ stream.fifo = << >> /\ stream.delivered = << >> /\ stream.total > 0
    /\ ret[1] = [err |-> DatabaseError, val |-> NoResult]

C40_ManagedTransactionBridge ==
    /\ [](\A i \in backend.managedTransactions \cup backend.results
                     \cup {p[1] : p \in backend.recordedErrors} :
             i >= 1 /\ i <= backend.id)
    /\ [](LET tries == {i \in DOMAIN backend.out : backend.out[i][1] = "RetryableTry"}
              dones == {i \in DOMAIN backend.out : backend.out[i][1] = "RetryableDone"}
          IN /\ Cardinality(tries) = backend.tries
             /\ \A i, j \in tries : i < j => backend.out[i][2] < backend.out[j][2]
             /\ dones = IF backend.at = "idle" /\ backend.result = Ok
                        THEN {Len(backend.out)} ELSE {})
    /\ [][ LET b == backend
               n == backend'
           IN
           /\ n.id >= b.id
           /\ (b.at = "session" /\ n.at = "work")
                => /\ n.retryableState = retryableNothing
                   /\ n.id = b.id + 1
                   /\ n.managedTransactions = b.managedTransactions \cup {n.id}
                   /\ n.id \notin b.managedTransactions
                   /\ n.out = Append(b.out, << "RetryableTry", n.id >>)
           /\ (b.at = "work" /\ n.at = "session")
                => \/ /\ n.req = "RetryablePositive"
                      /\ n.retryableState = retryablePositive
                      /\ n.workErr = Ok
                   \/ /\ n.req = "RetryableNegative"
                      /\ n.retryableState = retryableNegative
                      /\ n.retryableErrorId = 0 => n.workErr = FrontendErr
                      /\ \A p \in b.recordedErrors :
                           p[1] = n.retryableErrorId => n.workErr = p[2] /\ p[2] # Ok
           /\ (b.at = "work" /\ n.at = "work")
                => n.req \notin {"RetryablePositive", "RetryableNegative"}
           /\ (b.at = "session" /\ n.at = "idle")
                => /\ Len(n.out) = Len(b.out) + 1
                   /\ SubSeq(n.out, 1, Len(b.out)) = b.out
                   /\ IF n.result = Ok
                      THEN n.out[Len(n.out)] = << "RetryableDone", 0 >>
                      ELSE n.out[Len(n.out)][1] \in
                             {"DriverError", "FrontendError", "BackendError"}
         ]_vars

\* a write transaction function was tried twice: the frontend failed the
\* first attempt with the id of a recorded driver error, confirmed the second
\* one, and the backend answered with RetryableDone
C40_Witness ==
    /\ backend.at = "idle" /\ backend.call = "ExecuteWrite"
    /\ backend.tries = 2 /\ backend.result = Ok
    /\ backend.recordedErrors # {}
    /\ backend.out[Len(backend.out)] = << "RetryableDone", 0 >>

====
